---- MODULE Spec2Model ----
(***************************************************************************)
(* State-machine model of the web agent's step loop:                       *)
(*   capture_ui -> agent_a -> score_elements -> agent_b -> execute_plan    *)
(*   -> finalize_step -> (capture_ui | END)                                *)
(* as wired in agent_a/graph.py and run by web_agent/core/orchestrator.py. *)
(* The run state is the AgentAState dictionary; one action per graph node. *)
(***************************************************************************)
EXTENDS Integers, Sequences, FiniteSets, TLC

VARIABLES
    pc,                  \* graph node to run next, "END", or "aborted"
    supersteps,          \* node executions so far (graph runtime counter)
    error,               \* which exception ended the run ("" when none)
    step,                \* state["step"]
    done,                \* state["done"]
    completion_via,      \* state["completion_via"]
    observed,            \* capture_ui: the records of its latest page scan
    elements,            \* state["elements"]
    top_elements,        \* state["top_elements"]
    instruction,         \* state["instruction"]
    plan_steps,          \* state["plan_steps"]
    actions,             \* state["actions"]: the validated batch
    proposed,            \* agent_b: the parsed actions list it normalized
    raw_plan,            \* agent_b: the JSON value parsed from the reply
    maybe_done,          \* state["maybe_done"]
    followup_hint,       \* state["followup_hint"]: the notes it carries
    tried_ids,           \* state["tried_ids"]
    ineffective_targets, \* state["ineffective_targets"]
    last_image_hash,     \* state["last_image_hash"]
    ui_same,             \* state["ui_same"]
    no_change_steps,     \* state["no_change_steps"]
    last_actions,        \* state["last_actions"]
    planning_mode,       \* state["planning_mode"]
    history,             \* state["history"]
    attempted,           \* execute_plan: target ids whose action was started
    executed_ids,        \* execute_plan: executed_ids of its latest run
    failed_ids,          \* execute_plan: targets noted in failure_notes
    measured,            \* execute_plan: outcome of its latest change detection
    prev_hash,           \* execute_plan: last_image_hash it read before storing
    page,                \* execute_plan: what the page did during its latest run
    touched,             \* execute_plan: targets it sent a wait/click/fill/press to
    history_entry,       \* finalize_step: the history entry it built last
    pixels,              \* _compute_dhash: the 9x8 grayscale grid it reads
    fingerprint,         \* _compute_dhash: the value it returned
    layers,              \* score_element: the layers of the score it returned
    acted                \* execute_plan: the controls behind the ids it put into
                         \* tried_ids

vars == <<pc, supersteps, error, step, done, completion_via, observed, elements,
          top_elements, instruction, plan_steps, actions, proposed, raw_plan,
          maybe_done, followup_hint, tried_ids, ineffective_targets, last_image_hash,
          ui_same, no_change_steps, last_actions, planning_mode, history,
          attempted, executed_ids, failed_ids, measured, prev_hash, page,
          touched, history_entry, pixels, fingerprint, layers, acted>>

(***************************************************************************)
(* Bounds of the model and constants of the program.                       *)
(***************************************************************************)
MaxBatch == 2        \* longest Proposer batch checked against the Validator
MaxRunBatch == 2     \* longest Proposer batch inside a run
MaxSteps == 3        \* observations of a run explored with every page outcome
NumHashes == 2       \* fingerprints 0 .. NumHashes-1 a screenshot can have

MAX_STEPS == 15
recursion_limit == 50
HISTORY_WINDOW == 5

None == "None"       \* Python None / a missing key
NoHash == 0 - 1      \* last_image_hash is None: no screenshot fingerprinted yet
NoPage == [run |-> <<>>, texts |-> {}, dom_check |-> "none"]
NoEntry == [step |-> 0, followup |-> {}]
NoPrint == <<>>
NoScore == [intent |-> None, conflict |-> 0, destructive |-> 0, score |-> 0]

(***************************************************************************)
(* Proposed actions.  target_id is None, a string id, or the JSON integer  *)
(* 0 ("int:0"), which str() converts to "0".  param says what the params   *)
(* map carries for the action's type: nothing, the canonical key            *)
(* (text / option / key), or the alternative key (value / value / keys);   *)
(* "missing" is an action without a params map.                            *)
(***************************************************************************)
ActionTypes == {"click", "fill", "select", "press", "hover"}
TargetIds == {None, "0", "1", "9", "int:0"}
ParamKinds == {"none", "canon", "alt", "missing"}
NotADict == "not-a-dict"

Str(tid_raw) == IF tid_raw = "int:0" THEN "0" ELSE tid_raw

Falsy(tid_raw) == tid_raw \in {None, "int:0"}

\* every action type on a known, an unknown, a missing and an integer target,
\* with and without its parameter
ProposedActions ==
    {a \in [action : ActionTypes, target_id : TargetIds, param : ParamKinds] :
        /\ a.action = "hover" => a.param = "none"
        /\ a.action = "click" => a.param \in {"none", "missing"}
        /\ a.action # "click" => a.param # "missing"
        /\ a.action \in {"hover", "press"} => a.target_id = "0"
        /\ a.action = "fill" => a.target_id \in {"0", "9"}
        /\ a.action = "select" => a.target_id \in {"0", "1"}}
    \cup {[action |-> NotADict, target_id |-> None, param |-> "none"]}

SeqsUpTo(S, n) == UNION {[1..k -> S] : k \in 0..n}

(***************************************************************************)
(* Catalogs an observation can produce: ids are "0".."n-1" in list order.  *)
(***************************************************************************)
Roles == {"textbox", "button", "combobox", "menuitem"}

\* the box of the n-th control of a page whose controls do not overlap
BoxAt(n) == [x |-> 40 * n, y |-> 0, width |-> 30, height |-> 20]

IdNum(i) == CHOOSE n \in 0 .. 9 : ToString(n) = i

Elem(i, r) ==
    [id |-> i, role |-> r, name |-> "", landmark |-> "", placeholder |-> "",
     bounding_box |-> BoxAt(IdNum(i))]

Catalogs ==
    {<<>>} \cup {<<Elem("0", r)>> : r \in Roles}
    \cup {<<Elem("0", "combobox"), Elem("1", "menuitem")>>,
          <<Elem("0", "button"), Elem("1", "textbox")>>}

RunCatalogs == {<<>>, <<Elem("0", "textbox"), Elem("1", "combobox")>>}

Ids(elems) == {elems[i].id : i \in DOMAIN elems}

(***************************************************************************)
(* agent_b: the normalization loop (the Validator).                        *)
(***************************************************************************)
role_by_id(top, tid) ==
    IF \E i \in DOMAIN top : top[i].id = tid
    THEN LET i == CHOOSE j \in DOMAIN top :
                    /\ top[j].id = tid
                    /\ \A k \in DOMAIN top : top[k].id = tid => k <= j
         IN top[i].role
    ELSE ""

NoDuplicateCheck(tid, seen_targets) == FALSE

IsDuplicate(tid, seen_targets) == tid \in seen_targets

FillableAnyRole(role) == TRUE

FillableRole(role) ==
    role \in {"textbox", "textarea", "searchbox", "combobox", "contenteditable"}

SelectableRole(role) == role \in {"combobox", "menuitem"}

GuardsClickByRole(a, role) ==
    CASE a.action = "fill" -> a.param # "none" /\ FillableRole(role)
      [] a.action = "select" -> a.param # "none" /\ SelectableRole(role)
      [] a.action = "press" -> a.param = "canon"
      [] a.action = "click" -> ~FillableRole(role)
      [] OTHER -> FALSE

\* the role-based guards of one action whose target id is not a duplicate
PassesGuards(a, role) ==
    CASE a.action = "fill" -> a.param # "none" /\ FillableRole(role)
      [] a.action = "select" -> a.param # "none" /\ SelectableRole(role)
      [] a.action = "press" -> a.param = "canon"
      [] a.action = "click" -> TRUE
      [] OTHER -> FALSE

\* if "params" not in a or not isinstance(a["params"], dict): a["params"] = {}
WithParams(a) ==
    IF a.action # NotADict /\ a.param = "missing"
    THEN [a EXCEPT !.param = "none"] ELSE a

RECURSIVE NormalizeReserveAccepted(_, _, _, _, _)
NormalizeReserveAccepted(acts, i, top, seen_targets, normalized_actions) ==
    IF i > Len(acts) THEN normalized_actions
    ELSE LET a == WithParams(acts[i]) IN
         IF a.action = NotADict \/ a.target_id = None
         THEN NormalizeReserveAccepted(acts, i + 1, top, seen_targets,
                                       normalized_actions)
         ELSE LET tid == Str(a.target_id) IN
              IF IsDuplicate(tid, seen_targets)
                 \/ ~PassesGuards(a, role_by_id(top, tid))
              THEN NormalizeReserveAccepted(acts, i + 1, top, seen_targets,
                                            normalized_actions)
              ELSE NormalizeReserveAccepted(acts, i + 1, top,
                       seen_targets \cup {tid}, Append(normalized_actions, a))

RECURSIVE NormalizeFrom(_, _, _, _, _)
NormalizeFrom(acts, i, top, seen_targets, normalized_actions) ==
    IF i > Len(acts) THEN normalized_actions
    ELSE LET a == WithParams(acts[i]) IN
         IF a.action = NotADict \/ a.target_id = None
         THEN NormalizeFrom(acts, i + 1, top, seen_targets, normalized_actions)
         ELSE LET tid == Str(a.target_id) IN
              IF IsDuplicate(tid, seen_targets)
              THEN NormalizeFrom(acts, i + 1, top, seen_targets,
                                 normalized_actions)
              ELSE NormalizeFrom(acts, i + 1, top, seen_targets \cup {tid},
                       IF PassesGuards(a, role_by_id(top, tid))
                       THEN Append(normalized_actions, a)
                       ELSE normalized_actions)

Normalize(acts, top) == NormalizeFrom(acts, 1, top, {}, <<>>)

(***************************************************************************)
(* agent_b: the shapes a Proposer reply can have, and what the parsing     *)
(* code turns each into before the normalization loop.                     *)
(***************************************************************************)
ReplyShapes ==
    {"non_json", "object", "wrapped_list", "bare_list", "single_action",
     "actions_dict", "scalar"}

Replies(alphabet, n) ==
    {r \in [shape : ReplyShapes, acts : SeqsUpTo(alphabet, n),
            maybe_done : BOOLEAN] :
        /\ r.shape \in {"single_action", "actions_dict"} =>
               Len(r.acts) = 1 /\ r.acts[1].action # NotADict
        /\ r.shape \in {"non_json", "scalar"} => r.acts = <<>>
        /\ r.shape \in {"non_json", "scalar", "bare_list", "single_action"} =>
               ~r.maybe_done}

(***************************************************************************)
(* The JSON value of a reply.  A value is a list, a scalar, an action      *)
(* object (a dict without an "actions" key) or a plan object (a dict with   *)
(* one, and possibly a "maybe_done" key).                                   *)
(***************************************************************************)
JScalar == [t |-> "scalar"]

JList(items) == [t |-> "list", items |-> items]

JAction(a) == [t |-> "dict", has_actions |-> FALSE, item |-> a]

JPlan(actions_value, flag) ==
    [t |-> "dict", has_actions |-> TRUE, actions |-> actions_value,
     maybe_done |-> flag]

NoReply == [t |-> "none"]

JItem(a) == IF a.action = NotADict THEN JScalar ELSE JAction(a)

JItems(acts) == [i \in DOMAIN acts |-> JItem(acts[i])]

\* json.loads of the reply text
Json(reply) ==
    CASE reply.shape = "object" -> JPlan(JList(JItems(reply.acts)),
                                         reply.maybe_done)
      [] reply.shape = "wrapped_list" ->
            JList(<<JPlan(JList(JItems(reply.acts)), reply.maybe_done)>>)
      [] reply.shape = "bare_list" -> JList(JItems(reply.acts))
      [] reply.shape = "single_action" -> JAction(reply.acts[1])
      [] reply.shape = "actions_dict" ->
            JPlan(JAction(reply.acts[1]), reply.maybe_done)
      [] OTHER -> JScalar

IsDict(v) == v.t = "dict"
IsList(v) == v.t = "list"
HasActions(v) == IsDict(v) /\ v.has_actions

UnwrapFirstItem(plan) ==
    IF IsList(plan)
    THEN (IF plan.items # <<>> THEN plan.items[1] ELSE JPlan(JList(<<>>), FALSE))
    ELSE plan

\* if isinstance(plan, list): unwrap a one-element wrapper, else wrap
UnwrapList(plan) ==
    IF IsList(plan)
    THEN (IF Len(plan.items) = 1 /\ HasActions(plan.items[1])
          THEN plan.items[1]
          ELSE JPlan(plan, FALSE))
    ELSE plan

\* a dict without "actions" is a single action; anything else that is not
\* a dict gives an empty plan
WrapSingle(plan) ==
    IF IsDict(plan)
    THEN (IF ~plan.has_actions THEN JPlan(JList(<<plan>>), FALSE) ELSE plan)
    ELSE JPlan(JList(<<>>), FALSE)

normalize_plan(plan) == WrapSingle(UnwrapList(plan))

\* actions = plan.get("actions") or []; a dict becomes a one-element list
actions_raw(plan) ==
    LET actions_value == plan.actions IN
    IF IsDict(actions_value) THEN <<actions_value>>
    ELSE IF IsList(actions_value) THEN actions_value.items
    ELSE <<>>

\* the loop's view of one item: an action object, or not a dict
ItemOf(v) ==
    IF IsDict(v) /\ ~v.has_actions THEN v.item
    ELSE [action |-> NotADict, target_id |-> None, param |-> "none"]

ParsedItems(plan) ==
    LET items == actions_raw(normalize_plan(plan)) IN
    [i \in DOMAIN items |-> ItemOf(items[i])]

ParsedActions(reply) == ParsedItems(Json(reply))

ParsedMaybeDone(reply) == normalize_plan(Json(reply)).maybe_done

(***************************************************************************)
(* What the environment can answer in a whole run.                         *)
(***************************************************************************)
RunActions ==
    <<[action |-> "click", target_id |-> "0", param |-> "none"],
      [action |-> "select", target_id |-> "1", param |-> "canon"],
      [action |-> "click", target_id |-> "9", param |-> "none"],
      [action |-> "fill", target_id |-> "0", param |-> "none"]>>

\* the batches of a run: up to MaxRunBatch different actions of RunActions,
\* kept in the order of RunActions
RECURSIVE Pick(_, _)
Pick(chosen, i) ==
    IF i > Len(RunActions) THEN <<>>
    ELSE IF i \in chosen THEN <<RunActions[i]>> \o Pick(chosen, i + 1)
    ELSE Pick(chosen, i + 1)

RunBatches ==
    {Pick(chosen, 1) : chosen \in {c \in SUBSET DOMAIN RunActions :
                                      Cardinality(c) <= MaxRunBatch}}

RunReplies ==
    {[shape |-> "non_json", acts |-> <<>>, maybe_done |-> FALSE]} \cup
    {[shape |-> "object", acts |-> b, maybe_done |-> FALSE] :
        b \in RunBatches}

LongReplies ==
    {r \in Replies({[action |-> "click", target_id |-> "0", param |-> "none"],
                    [action |-> "fill", target_id |-> "0", param |-> "none"]},
                   1) : r.shape \in {"non_json", "object"}}

(***************************************************************************)
(* Text: Python strings are TLA+ strings; "a in b" is substring search.    *)
(***************************************************************************)
UpperChars == "ABCDEFGHIJKLMNOPQRSTUVWXYZ"
LowerChars == "abcdefghijklmnopqrstuvwxyz"
DigitChars == "0123456789"

CharAt(text, i) == SubSeq(text, i, i)

Chars(text) == {CharAt(text, i) : i \in 1 .. Len(text)}

UpperSet == Chars(UpperChars)
DigitSet == Chars(DigitChars)
AlnumSet == Chars(LowerChars) \cup UpperSet \cup DigitSet

LowerOf ==
    [c \in UpperSet |->
        CharAt(LowerChars,
               CHOOSE i \in 1 .. Len(UpperChars) : CharAt(UpperChars, i) = c)]

LowerChar(c) == IF c \in UpperSet THEN LowerOf[c] ELSE c

RECURSIVE LowerFrom(_, _)
LowerFrom(text, i) ==
    IF i > Len(text) THEN ""
    ELSE LowerChar(CharAt(text, i)) \o LowerFrom(text, i + 1)

\* str.lower()
Lower(text) == LowerFrom(text, 1)

\* the Python test "kw in text"
In(kw, text) ==
    \E i \in 1 .. (Len(text) - Len(kw) + 1) :
        SubSeq(text, i, i + Len(kw) - 1) = kw

RECURSIVE Strip(_)
\* str.strip() for blanks
Strip(text) ==
    IF text = "" THEN ""
    ELSE IF CharAt(text, 1) = " " THEN Strip(SubSeq(text, 2, Len(text)))
    ELSE IF CharAt(text, Len(text)) = " "
    THEN Strip(SubSeq(text, 1, Len(text) - 1))
    ELSE text

IsAlnum(c) == c \in AlnumSet

RECURSIVE TokensFrom(_, _, _, _)
TokensFrom(text, i, cur, acc) ==
    IF i > Len(text)
    THEN IF cur = "" THEN acc ELSE Append(acc, cur)
    ELSE LET c == CharAt(text, i) IN
         IF IsAlnum(c) THEN TokensFrom(text, i + 1, cur \o c, acc)
         ELSE TokensFrom(text, i + 1, "",
                         IF cur = "" THEN acc ELSE Append(acc, cur))

\* re.findall(r"[a-zA-Z0-9]+", text.lower())
tokenize(text) == TokensFrom(Lower(text), 1, "", <<>>)

TokenSet(text) ==
    LET tokens == tokenize(text) IN {tokens[i] : i \in DOMAIN tokens}

\* str.isdigit() of a non-empty string
IsDigit(text) ==
    text # "" /\ \A i \in 1 .. Len(text) : CharAt(text, i) \in DigitSet

\* plan_steps: None, or the Planner's form plan with its fields
NoPlan == [type |-> "none", done |-> FALSE, fields |-> <<>>]

Field(label, value) == [label |-> label, value |-> value]

Plans ==
    {NoPlan,
     [type |-> "form", done |-> FALSE, fields |-> <<Field("Title", "Bug")>>],
     [type |-> "form", done |-> TRUE, fields |-> <<Field("Title", "Bug")>>]}

InstrEmpty == ""
InstrPlain == "Click the Create button"
InstrGoal == "Goal completed."
user_query == "create a new issue"

\* "goal completed" in instruction.lower(), worked out once for each text the
\* Planner can answer with
SaysCompleted ==
    [instr \in {InstrEmpty, InstrPlain, InstrGoal} |->
        In("goal completed", Lower(instr))]

HasCompletionPhrase(instr) ==
    IF instr \in DOMAIN SaysCompleted THEN SaysCompleted[instr]
    ELSE In("goal completed", Lower(instr))

PlannerReplies ==
    {r \in [kind : {"error", "json", "text"},
            instruction : {InstrEmpty, InstrPlain, InstrGoal},
            plan : Plans, done : BOOLEAN] :
        /\ r.kind = "error" =>
               r.instruction = InstrEmpty /\ r.plan = NoPlan /\ ~r.done
        /\ r.kind = "json" => r.instruction # InstrEmpty
        /\ r.kind = "text" =>
               r.plan = NoPlan /\ r.done = HasCompletionPhrase(r.instruction)}

\* the Planner answers of a bounded run: free text, with or without the
\* completion phrase, a form plan, or a failed model call
RunPlannerReplies ==
    {r \in PlannerReplies :
        \/ r.kind = "error"
        \/ r.kind = "text" /\ r.instruction # InstrEmpty
        \/ /\ r.kind = "json" /\ r.instruction = InstrPlain
           /\ r.plan.type = "form" /\ ~r.plan.done /\ ~r.done}

Hashes == 0 .. (NumHashes - 1)

Outcomes == {"ok", "throw", "skip", "locator_error", "over_budget"}

LongOutcomes == {"ok", "throw"}

(***************************************************************************)
(* score_element: scores are kept in tenths (5.0 is 50).                   *)
(***************************************************************************)
IntentOrder ==
    <<"profile_settings", "create_new", "filter_search", "navigate_tab",
      "form_fill">>

INTENT_KEYWORDS(intent) ==
    CASE intent = "profile_settings" ->
            {"profile", "account", "settings", "preferences", "full name",
             "display name", "avatar", "picture", "password", "email"}
      [] intent = "create_new" -> {"create", "new", "add", "start", "open new"}
      [] intent = "filter_search" ->
            {"filter", "search", "find", "narrow", "show only", "query"}
      [] intent = "navigate_tab" ->
            {"go to", "switch to", "tab", "view", "section", "page"}
      [] intent = "form_fill" ->
            {"fill", "enter", "type", "set", "update", "form", "field",
             "submit", "save"}
      [] OTHER -> {}

NEGATIVE_SIGNALS(intent) ==
    CASE intent = "profile_settings" ->
            {"issue", "ticket", "task", "filter", "inbox", "project", "create"}
      [] intent = "create_new" ->
            {"filter", "search", "settings", "profile", "logout"}
      [] intent = "filter_search" ->
            {"create", "new", "settings", "profile", "logout"}
      [] OTHER -> {}

GENERIC_TOKENS == {"workspace", "help", "menu", "sidebar", "navigation"}

DESTRUCTIVE_TOKENS ==
    {"delete", "remove", "discard", "close", "dismiss", "trash"}

BASE_ROLE_WEIGHTS(role) ==
    IF role \in {"button", "link", "combobox", "textbox", "textarea",
                 "searchbox"} THEN 10
    ELSE IF role \in {"option", "menuitem", "checkbox", "radio", "tab"} THEN 8
    ELSE 5

RECURSIVE ClassifyByToken(_, _)
ClassifyByToken(instr_lower, k) ==
    IF k > Len(IntentOrder) THEN "generic"
    ELSE IF INTENT_KEYWORDS(IntentOrder[k]) \cap TokenSet(instr_lower) # {}
    THEN IntentOrder[k]
    ELSE ClassifyByToken(instr_lower, k + 1)

RECURSIVE ClassifyFrom(_, _)
ClassifyFrom(instr_lower, k) ==
    IF k > Len(IntentOrder) THEN "generic"
    ELSE IF \E kw \in INTENT_KEYWORDS(IntentOrder[k]) : In(kw, instr_lower)
    THEN IntentOrder[k]
    ELSE ClassifyFrom(instr_lower, k + 1)

_classify_intent(instr) == ClassifyFrom(Lower(instr), 1)

_score_lexical_match(instr, name, instr_tokens, name_tokens) ==
    LET phrase == IF name # "" /\ In(Lower(name), Lower(instr))
                  THEN (IF Len(name) > 3 THEN 50 ELSE 20)
                  ELSE 0
    IN IF instr_tokens = {} \/ name_tokens = {} THEN phrase
       ELSE phrase + 30 * Cardinality(instr_tokens \cap name_tokens)

_score_role_bias(role, landmark, intent, name_tokens) ==
    BASE_ROLE_WEIGHTS(role) +
    (CASE intent = "profile_settings" ->
            (IF name_tokens \cap {"settings", "profile", "account",
                                  "workspace"} # {} THEN 20 ELSE 0)
            + (IF landmark \in {"navigation", "banner", "contentinfo"}
               THEN 10 ELSE 0)
       [] intent = "create_new" ->
            (IF name_tokens \cap {"create", "new", "add"} # {}
             THEN 20 ELSE 0)
            + (IF landmark = "main" THEN 10 ELSE 0)
       [] intent = "filter_search" ->
            (IF name_tokens \cap {"filter", "search"} # {} THEN 20 ELSE 0)
       [] intent = "form_fill" ->
            (IF role \in {"textbox", "textarea", "combobox", "checkbox",
                          "radio"} THEN 15 ELSE 0)
            + (IF landmark = "main" THEN 10 ELSE 0)
       [] OTHER -> 0)

\* Layer 3, domain conflict
ConflictPenalty(intent, name_tokens, instr_tokens) ==
    IF /\ NEGATIVE_SIGNALS(intent) \cap name_tokens # {}
       /\ NEGATIVE_SIGNALS(intent) \cap instr_tokens = {}
    THEN 0 - 20 ELSE 0

\* Layer 3, destructive penalty
DestructivePenalty(name_tokens, instr_tokens) ==
    IF /\ name_tokens \cap DESTRUCTIVE_TOKENS # {}
       /\ instr_tokens \cap DESTRUCTIVE_TOKENS = {}
    THEN 0 - 30 ELSE 0

_score_negative_signals(intent, name_tokens, instr_tokens) ==
    ConflictPenalty(intent, name_tokens, instr_tokens)
    + (IF name_tokens \cap GENERIC_TOKENS # {} THEN 0 - 5 ELSE 0)
    + DestructivePenalty(name_tokens, instr_tokens)

is_garbage_name(name) ==
    /\ name # ""
    /\ \/ IsDigit(name)
       \/ /\ Len(name) < 3
          /\ Lower(name) \notin {"ok", "go", "id", "up", "to", "at", "in",
                                 "on", "by"}

RetryPenaltyFlat(elem_id, tried, same) ==
    IF elem_id \in tried THEN 15 ELSE 0

\* Layer 4, retry penalty
RetryPenalty(elem_id, tried, same) ==
    IF elem_id \in tried THEN (IF same THEN 50 ELSE 15) ELSE 0

score_element(elem, instr, tried, same) ==
    LET name == Strip(elem.name)
        full_name == Strip(name \o " " \o Strip(elem.placeholder))
        instr_set == TokenSet(instr)
        name_set == TokenSet(full_name)
        intent == _classify_intent(instr)
    IN _score_lexical_match(instr, full_name, instr_set, name_set)
       + _score_role_bias(elem.role, elem.landmark, intent, name_set)
       + _score_negative_signals(intent, name_set, instr_set)
       - RetryPenalty(elem.id, tried, same)
       - (IF is_garbage_name(name) THEN 50 ELSE 0)

(***************************************************************************)
(* The graph runtime: a node runs while the run has executed fewer than    *)
(* recursion_limit nodes; an exception raised by a node ends the run.      *)
(***************************************************************************)
Nodes ==
    {"capture_ui", "agent_a", "score_elements", "agent_b", "execute_plan",
     "finalize_step"}

CanRun(node) == pc = node /\ supersteps < recursion_limit

stepScratch == <<elements, top_elements, instruction, plan_steps, actions,
                 followup_hint>>
loopMemory == <<tried_ids, ineffective_targets, last_image_hash, ui_same,
                no_change_steps, last_actions, history, acted>>
execTrace == <<attempted, executed_ids, failed_ids, measured, prev_hash, page,
               touched>>
hashTrace == <<pixels, fingerprint, layers>>

Raise(e) ==
    /\ pc' = "aborted"
    /\ error' = e
    /\ supersteps' = supersteps + 1
    /\ UNCHANGED <<observed, step, done, completion_via, maybe_done, planning_mode,
                   proposed, raw_plan, stepScratch, loopMemory, execTrace,
                   hashTrace, history_entry>>

Goto(node) ==
    /\ pc' = node
    /\ supersteps' = supersteps + 1
    /\ error' = error

GraphRecursionError ==
    /\ pc \in Nodes
    /\ supersteps >= recursion_limit
    /\ pc' = "aborted"
    /\ error' = "recursion_limit"
    /\ UNCHANGED <<observed, supersteps, step, done, completion_via, maybe_done,
                   planning_mode, proposed, raw_plan, stepScratch, loopMemory,
                   execTrace, hashTrace, history_entry>>

Init ==
    /\ pc = "capture_ui"
    /\ supersteps = 0
    /\ error = ""
    /\ step = 0
    /\ done = FALSE
    /\ completion_via = None
    /\ observed = <<>>
    /\ elements = <<>>
    /\ top_elements = <<>>
    /\ instruction = None
    /\ plan_steps = NoPlan
    /\ actions = <<>>
    /\ proposed = <<>>
    /\ raw_plan = NoReply
    /\ maybe_done = FALSE
    /\ followup_hint = {}
    /\ tried_ids = {}
    /\ ineffective_targets = {}
    /\ last_image_hash = NoHash
    /\ ui_same = FALSE
    /\ no_change_steps = 0
    /\ last_actions = <<>>
    /\ planning_mode = None
    /\ history = <<>>
    /\ attempted = <<>>
    /\ executed_ids = <<>>
    /\ failed_ids = <<>>
    /\ measured = "none"
    /\ prev_hash = NoHash
    /\ page = NoPage
    /\ touched = <<>>
    /\ history_entry = NoEntry
    /\ pixels = <<>>
    /\ fingerprint = NoPrint
    /\ layers = NoScore
    /\ acted = {}

(***************************************************************************)
(* capture_ui: observe the page; the catalog is created fresh.             *)
(***************************************************************************)
\* Python round(v / 2) for a non-negative integer v: halves go to the even
\* neighbour
RoundHalf(v) ==
    IF v % 2 = 0 THEN v \div 2
    ELSE IF (v \div 2) % 2 = 0 THEN v \div 2 ELSE (v \div 2) + 1

SpatialKey(e) ==
    <<RoundHalf(e.bounding_box.x), RoundHalf(e.bounding_box.y),
      RoundHalf(e.bounding_box.width), RoundHalf(e.bounding_box.height)>>

role_prio(e) == IF e.role \in {"button", "textbox", "combobox"} THEN 1 ELSE 0

\* sort_key: (has_name, name_len, role_prio); has_name is 1 or 0
sort_key(e) ==
    <<IF e.name # "" THEN 1 ELSE 0, Len(e.name), role_prio(e)>>

\* tuple comparison a > b
KeyGreater(a, b) ==
    \E k \in 1 .. 3 : a[k] > b[k] /\ \A m \in 1 .. (k - 1) : a[m] = b[m]

FirstOfGroup(group) == group[1]

\* group.sort(key=sort_key, reverse=True); group[0]: the first record of
\* the group that no other record of the group beats
BestOfGroup(group) ==
    group[CHOOSE i \in DOMAIN group :
            /\ \A j \in DOMAIN group :
                   ~KeyGreater(sort_key(group[j]), sort_key(group[i]))
            /\ \A j \in 1 .. (i - 1) :
                   KeyGreater(sort_key(group[i]), sort_key(group[j]))]

\* the records of the scan whose key is seen for the first time, in order
FirstSeen(scan) ==
    SelectSeq([i \in DOMAIN scan |-> i],
              LAMBDA i : \A j \in 1 .. (i - 1) :
                            SpatialKey(scan[j]) # SpatialKey(scan[i]))

unique_elements(scan) ==
    LET first == FirstSeen(scan) IN
    [g \in DOMAIN first |->
        BestOfGroup(SelectSeq(scan, LAMBDA e :
            SpatialKey(e) = SpatialKey(scan[first[g]])))]

KeepScanIds(unique) == unique

\* re-index ids to be continuous after filtering
Reindex(unique) ==
    [i \in DOMAIN unique |-> [unique[i] EXCEPT !.id = ToString(i - 1)]]

collect_clickable_elements(scan) == Reindex(unique_elements(scan))

capture_ui(scans) ==
    /\ CanRun("capture_ui")
    /\ \E scan \in scans :
          /\ observed' = scan
          /\ elements' = collect_clickable_elements(scan)
    /\ Goto("agent_a")
    /\ UNCHANGED <<step, done, completion_via, maybe_done, planning_mode,
                   top_elements, instruction, plan_steps, actions, proposed, raw_plan,
                   followup_hint, loopMemory, execTrace, hashTrace>>
    /\ history_entry' = NoEntry

(***************************************************************************)
(* agent_a: the Planner node.                                              *)
(***************************************************************************)
is_form_like(elems) == Len(elems) >= 3

decide_planning_mode(form_like, dom_tractable) ==
    IF \/ step = 0
       \/ (ui_same /\ planning_mode = "dom")
       \/ (planning_mode = "dom" /\ last_actions = <<>>)
    THEN "vision"
    ELSE IF form_like THEN "dom_form"
    ELSE IF dom_tractable THEN "dom"
    ELSE "vision"

plannerFrame == <<observed, step, elements, top_elements, actions, proposed, raw_plan,
                  followup_hint, loopMemory, execTrace, hashTrace,
                  history_entry>>

agent_a(replies, tractable) ==
    /\ CanRun("agent_a")
    /\ \E goal_satisfied \in BOOLEAN, vision_ok \in BOOLEAN,
          dom_tractable \in tractable, reply \in replies :
        LET mode == decide_planning_mode(is_form_like(elements),
                                         dom_tractable)
        IN
        IF goal_satisfied
        THEN /\ done' = TRUE
             /\ completion_via' = "dom_check"
             /\ maybe_done' = FALSE
             /\ Goto("score_elements")
             /\ UNCHANGED <<instruction, plan_steps, planning_mode,
                            plannerFrame>>
        ELSE IF maybe_done /\ vision_ok
        THEN /\ done' = TRUE
             /\ completion_via' = "vision_verification"
             /\ maybe_done' = FALSE
             /\ Goto("score_elements")
             /\ UNCHANGED <<instruction, plan_steps, planning_mode,
                            plannerFrame>>
        ELSE IF mode = "dom"
        THEN /\ planning_mode' = mode
             /\ instruction' = user_query
             /\ plan_steps' = NoPlan
             /\ done' = FALSE
             /\ maybe_done' = FALSE
             /\ Goto("score_elements")
             /\ UNCHANGED <<completion_via, plannerFrame>>
        ELSE IF reply.kind = "error"
        THEN Raise("planner_model_call_failed")
        ELSE /\ planning_mode' = mode
             /\ instruction' = reply.instruction
             /\ plan_steps' = reply.plan
             /\ done' = reply.done
             /\ completion_via' =
                    IF reply.done /\ completion_via = None
                    THEN "navigator_done_signal" ELSE completion_via
             /\ maybe_done' = FALSE
             /\ Goto("score_elements")
             /\ UNCHANGED plannerFrame

(***************************************************************************)
(* score_elements: the Ranker node.                                        *)
(***************************************************************************)
Min(a, b) == IF a < b THEN a ELSE b

DEFAULT_TOP_K == 10
FORM_TOP_K == 25
COVERAGE_EXTRA == 5

is_form_mode(instr, plan) ==
    \/ plan.type = "form"
    \/ /\ In("fill", Lower(instr))
       /\ In("form", Lower(instr)) \/ In("details", Lower(instr))

current_top_k(instr, plan) ==
    IF is_form_mode(instr, plan) THEN FORM_TOP_K ELSE DEFAULT_TOP_K

\* how many form fields of the plan have a label found in the element's
\* name or placeholder
LabelMatches(e, plan) ==
    Cardinality({i \in DOMAIN plan.fields :
        /\ plan.fields[i].label # ""
        /\ \/ In(Lower(plan.fields[i].label), Lower(e.name))
           \/ In(Lower(plan.fields[i].label), Lower(e.placeholder))})

RankScore(e, instr, plan, tried, ineffective, same) ==
    score_element(e, instr, tried, same)
    - (IF e.id \in ineffective THEN 100 ELSE 0)
    + (IF plan.type = "form" THEN 30 * LabelMatches(e, plan) ELSE 0)

Scored(e, instr, plan, tried, ineffective, same) ==
    [id |-> e.id, role |-> e.role, name |-> e.name, landmark |-> e.landmark,
     placeholder |-> e.placeholder,
     score |-> RankScore(e, instr, plan, tried, ineffective, same)]

InsertBeforeEqual(sorted, e) ==
    LET before == SelectSeq(sorted, LAMBDA x : x.score > e.score)
        after == SelectSeq(sorted, LAMBDA x : x.score <= e.score)
    IN before \o <<e>> \o after

\* where sorted(..., reverse=True) puts the next element: behind every
\* element already placed whose score is not smaller
InsertStable(sorted, e) ==
    LET before == SelectSeq(sorted, LAMBDA x : x.score >= e.score)
        after == SelectSeq(sorted, LAMBDA x : x.score < e.score)
    IN before \o <<e>> \o after

RECURSIVE SortedFrom(_, _, _)
SortedFrom(scored, i, acc) ==
    IF i > Len(scored) THEN acc
    ELSE SortedFrom(scored, i + 1, InsertStable(acc, scored[i]))

scored_sorted(scored) == SortedFrom(scored, 1, <<>>)

FirstN(s, n) == SubSeq(s, 1, Min(n, Len(s)))

InputRoles == {"textbox", "textarea", "searchbox", "contenteditable"}

WantsInputs(instr) ==
    \E tok \in {"fill", "title", "description", "field"} :
        In(tok, Lower(instr))

WantsCombos(instr) ==
    \E tok \in {"select", "dropdown", "choose", "option"} :
        In(tok, Lower(instr))

EnsureAll(selected, sorted, wanted, roles) ==
    IF ~wanted THEN selected
    ELSE selected \o
         SelectSeq(sorted, LAMBDA e :
             e.role \in roles /\ e.id \notin Ids(selected))

\* the coverage pass: up to five more elements of the wanted roles that
\* are not selected yet
Ensure(selected, sorted, wanted, roles) ==
    IF ~wanted THEN selected
    ELSE selected \o
         FirstN(SelectSeq(sorted, LAMBDA e :
                    e.role \in roles /\ e.id \notin Ids(selected)),
                COVERAGE_EXTRA)

Select(elems, instr, plan, tried, ineffective, same) ==
    LET scored == [i \in DOMAIN elems |->
                      Scored(elems[i], instr, plan, tried, ineffective, same)]
        sorted == scored_sorted(scored)
        baseline == FirstN(sorted, current_top_k(instr, plan))
        with_inputs == Ensure(baseline, sorted, WantsInputs(instr),
                              InputRoles)
    IN Ensure(with_inputs, sorted, WantsCombos(instr), {"combobox"})

score_elements ==
    /\ CanRun("score_elements")
    /\ IF instruction \in {None, InstrEmpty}
       THEN Raise("no_instruction_for_scoring")
       ELSE /\ top_elements' = Select(elements, instruction, plan_steps,
                                      tried_ids, ineffective_targets, ui_same)
            /\ Goto("agent_b")
            /\ UNCHANGED <<observed, step, done, completion_via, maybe_done,
                           planning_mode, elements, instruction, plan_steps,
                           actions, proposed, raw_plan, followup_hint, loopMemory,
                           execTrace, hashTrace, history_entry>>

(***************************************************************************)
(* agent_b: the Proposer call, the reply parsing and the Validator.        *)
(***************************************************************************)
agent_b(replies) ==
    /\ CanRun("agent_b")
    /\ IF top_elements = <<>>
       THEN Raise("no_top_elements")
       ELSE \E reply \in replies :
            IF reply.shape = "non_json"
            THEN Raise("proposer_non_json")
            ELSE /\ raw_plan' = Json(reply)
                 /\ proposed' = [i \in DOMAIN ParsedActions(reply) |->
                                    WithParams(ParsedActions(reply)[i])]
                 /\ actions' = Normalize(ParsedActions(reply), top_elements)
                 /\ followup_hint' = {}
                 /\ maybe_done' = ParsedMaybeDone(reply)
                 /\ Goto("execute_plan")
                 /\ UNCHANGED <<observed, step, done, completion_via, planning_mode,
                                elements, top_elements, instruction,
                                plan_steps, loopMemory, execTrace,
                                hashTrace, history_entry>>

(***************************************************************************)
(* execute_plan: the Executor's loop over the validated batch.             *)
(***************************************************************************)
Resolvable(top, elems, target_id) ==
    Str(target_id) \in (Ids(top) \cup Ids(elems))

\* _resolve_element searches top_k first, then the full element list
resolved_role(top, elems, target_id) ==
    IF Str(target_id) \in Ids(top)
    THEN role_by_id(top, Str(target_id))
    ELSE role_by_id(elems, Str(target_id))

ById(list, tid) ==
    list[CHOOSE j \in DOMAIN list :
            /\ list[j].id = tid
            /\ \A k \in DOMAIN list : list[k].id = tid => j <= k]

\* the element an id stands for in this step's lists (resolvable ids only)
_resolve_element(top, elems, target_id) ==
    IF Str(target_id) \in Ids(top) THEN ById(top, Str(target_id))
    ELSE ById(elems, Str(target_id))

\* what a control is on the page, whatever id a scan gives it
Control(e) == [role |-> e.role, name |-> e.name]

UnfillableRole(role) ==
    role \in {"button", "link", "tab", "menuitem", "switch"}

(***************************************************************************)
(* What the page does to one action: the results of the Playwright calls   *)
(* the Executor makes for it, and of the clock check before it.            *)
(***************************************************************************)
\* in_budget: time.time() - step_start <= 20 when the action comes up
\* locator: eval(snippet) gives a locator
\* status_date: the control is named "status" and the option is date-like
\* value_matches: the control already shows the wanted option
\* visible: locator.wait_for(state="visible") returns in time
\* acts: the call on the target itself (click, click and fill, press) works
\* has_p, p_acts: the target has an inner <p>, and click and fill on it work
\* option_role: a role="option" element of that name can be clicked
\* option_text: an element with that visible text can be clicked
\* typeahead: typing the option into the control and Enter would pick it
PageOk ==
    [in_budget |-> TRUE, locator |-> TRUE, status_date |-> FALSE,
     value_matches |-> FALSE, visible |-> TRUE, acts |-> TRUE,
     has_p |-> FALSE, p_acts |-> FALSE, option_role |-> TRUE,
     option_text |-> TRUE, typeahead |-> TRUE]

\* one page for each way an action of a run can come out
PageOf(outcome) ==
    CASE outcome = "ok" -> PageOk
      [] outcome = "throw" ->
            [PageOk EXCEPT !.visible = FALSE, !.acts = FALSE,
                           !.option_role = FALSE, !.option_text = FALSE,
                           !.typeahead = FALSE]
      [] outcome = "skip" -> [PageOk EXCEPT !.status_date = TRUE]
      [] outcome = "locator_error" -> [PageOk EXCEPT !.locator = FALSE]
      [] outcome = "over_budget" -> [PageOk EXCEPT !.in_budget = FALSE]

\* TRUE when the call returns, FALSE when it raises
_safe_click(pg) == pg.visible /\ pg.acts

FillWithoutFallback(pg) == pg.visible /\ pg.acts

\* behind the role check: wait for visible, click and fill, else the inner <p>
_safe_fill(pg) == pg.visible /\ (pg.acts \/ (pg.has_p /\ pg.p_acts))

ValueNeverRead(pg) == FALSE

_value_matches(pg) == pg.value_matches

SelectByOptionRole(pg) ==
    IF _value_matches(pg) THEN "True"
    ELSE IF ~pg.visible \/ ~pg.acts THEN "raise"
    ELSE IF pg.option_role THEN "True" ELSE "False"

\* "True", "False" (the option click failed) or "raise"
_safe_select(pg) ==
    IF _value_matches(pg) THEN "True"
    ELSE IF ~pg.visible THEN "raise"
    ELSE IF ~pg.acts THEN "raise"
    ELSE IF pg.option_text THEN "True" ELSE "False"

\* the clicks _safe_select sends to the page: none when the value is already
\* shown or the control is not visible, one on the control, and one on the
\* option once the control has opened and the option text is visible
SelectClicks(pg) ==
    IF _value_matches(pg) THEN 0
    ELSE IF ~pg.visible THEN 0
    ELSE IF ~pg.acts THEN 1
    ELSE IF pg.option_text THEN 2 ELSE 1

\* how one action comes out on a page, behind the parameter and role checks
Settle(action, pg) ==
    IF ~pg.in_budget THEN "over_budget"
    ELSE IF ~pg.locator THEN "locator_error"
    ELSE CASE action = "click" -> IF _safe_click(pg) THEN "ok" ELSE "throw"
           [] action = "fill" -> IF _safe_fill(pg) THEN "ok" ELSE "throw"
           [] action = "select" ->
                 IF pg.status_date THEN "skip"
                 ELSE IF _safe_select(pg) = "True" THEN "ok" ELSE "throw"
           [] action = "press" -> IF pg.acts THEN "ok" ELSE "throw"
           [] OTHER -> "throw"

\* whether the try block gets as far as a Playwright call on the target
Touches(plan, role, outcome) ==
    CASE plan.action = "click" -> TRUE
      [] plan.action = "fill" -> plan.param # "none" /\ ~UnfillableRole(role)
      [] plan.action = "select" ->
            /\ plan.param = "canon"
            /\ role \in {"combobox", "menuitem"}
            /\ outcome # "skip"
      [] plan.action = "press" -> plan.param # "none"
      [] OTHER -> FALSE

\* what the try block of one action ends in: "ok" (executed), "failed"
\* (exception caught, noted) or "skipped" (continue without a note)
RunAction(plan, role, outcome) ==
    CASE plan.action = "click" ->
            IF outcome = "ok" THEN "ok" ELSE "failed"
      [] plan.action = "fill" ->
            IF plan.param = "none" \/ UnfillableRole(role) THEN "failed"
            ELSE IF outcome = "ok" THEN "ok" ELSE "failed"
      [] plan.action = "select" ->
            IF plan.param # "canon" THEN "skipped"
            ELSE IF role \notin {"combobox", "menuitem"} THEN "skipped"
            ELSE IF outcome = "skip" THEN "skipped"
            ELSE IF outcome = "ok" THEN "ok" ELSE "failed"
      [] plan.action = "press" ->
            IF plan.param = "none" THEN "failed"
            ELSE IF outcome = "ok" THEN "ok" ELSE "failed"
      [] OTHER -> "failed"

NoTrace == [raised |-> "", attempted |-> <<>>, executed |-> <<>>,
            failed |-> <<>>, notes |-> {}, touched |-> <<>>]

\* the exceptions of one loop iteration that are raised before its try block
RaisesOutsideTry(top, elems, plan, outcome) ==
    IF Falsy(plan.target_id) THEN "invalid_action_plan"
    ELSE IF ~Resolvable(top, elems, plan.target_id) THEN "element_not_found"
    ELSE IF outcome = "locator_error" THEN "locator_unresolved"
    ELSE ""

RECURSIVE ExecuteFrom(_, _, _, _, _, _)
ExecuteFrom(acts, i, oc, top, elems, acc) ==
    IF i > Len(acts) THEN acc
    ELSE IF oc[i] = "over_budget"
    THEN [acc EXCEPT !.notes = @ \cup {"budget"}]
    ELSE LET plan == acts[i]
             exc == RaisesOutsideTry(top, elems, plan, oc[i])
         IN
         IF exc # "" THEN [acc EXCEPT !.raised = exc]
         ELSE LET tid == plan.target_id
                  role == resolved_role(top, elems, tid)
                  res == RunAction(plan, role, oc[i])
                  started ==
                      [acc EXCEPT !.attempted = Append(@, tid),
                                  !.touched = IF Touches(plan, role, oc[i])
                                              THEN Append(@, tid) ELSE @]
              IN
              ExecuteFrom(acts, i + 1, oc, top, elems,
                  CASE res = "ok" ->
                          [started EXCEPT !.executed = Append(@, tid)]
                    [] res = "failed" ->
                          [started EXCEPT !.failed = Append(@, tid),
                                          !.notes = @ \cup {"failed"}]
                    [] OTHER -> started)

\* what the page and the clock can do to a batch: the budget cannot be
\* exceeded before the first action, only a select has a skip path, and
\* nothing is drawn for the actions behind the one that ends the loop
BatchOutcomes(acts, outcomes) ==
    {oc \in [DOMAIN acts -> outcomes] :
        \A i \in DOMAIN acts :
            /\ (i = 1 => oc[i] # "over_budget")
            /\ (oc[i] = "skip" => acts[i].action = "select")
            /\ (oc[i] \in {"over_budget", "locator_error"} =>
                   \A j \in DOMAIN acts : j > i => oc[j] = "ok")}

SeqToSet(s) == {s[i] : i \in DOMAIN s}

(***************************************************************************)
(* execute_plan: the Change Detector.                                      *)
(***************************************************************************)
UiSame(last_hash, current_hash) ==
    /\ last_hash # NoHash
    /\ current_hash # 0
    /\ current_hash = last_hash

IneffectiveNeverCleared(same, ineffective, executed) ==
    IF same THEN ineffective \cup SeqToSet(executed) ELSE ineffective

IneffectiveAfter(same, ineffective, executed) ==
    IF same THEN ineffective \cup SeqToSet(executed) ELSE {}

NoChangeAfter(same, n) == IF same THEN n + 1 ELSE 0

TriedReplaced(tried, executed) == SeqToSet(executed)

TriedNotExtended(tried, executed) == tried

\* state["tried_ids"].extend(executed_ids)
TriedAfter(tried, executed) == tried \cup SeqToSet(executed)

\* _extract_form_expectations: the key a field's label files its value under
LabelKey(label) ==
    LET l == Lower(label) IN
    IF In("title", l) THEN "title"
    ELSE IF In("description", l) THEN "description"
    ELSE IF In("priority", l) THEN "priority"
    ELSE IF In("assignee", l) THEN "assignee"
    ELSE IF In("label", l) THEN "labels"
    ELSE None

RECURSIVE ExpectFrom(_, _, _)
ExpectFrom(fields, i, expectations) ==
    IF i > Len(fields) THEN expectations
    ELSE LET val == fields[i].value
             key == LabelKey(fields[i].label)
         IN
         ExpectFrom(fields, i + 1,
             IF val = "" \/ key = None THEN expectations
             ELSE [k \in DOMAIN expectations \cup {key} |->
                      IF k = key THEN val ELSE expectations[k]])

_extract_form_expectations(plan) ==
    ExpectFrom(plan.fields, 1, [k \in {} |-> ""])

\* texts: the values that page.locator("text=...") finds visible
_dom_confirm_issue(expectations, texts, dom_check) ==
    /\ DOMAIN expectations # {}
    /\ dom_check # "throws"
    /\ \A k \in DOMAIN expectations : expectations[k] \in texts

FieldValues(plan) == {plan.fields[i].value : i \in DOMAIN plan.fields} \ {""}

\* the pages of a run: one page per outcome, any of the plan's values visible
RunEnvs(acts, plan, outcomes) ==
    {[run |-> [i \in DOMAIN oc |-> PageOf(oc[i])], texts |-> t,
      dom_check |-> "ok"] :
        oc \in BatchOutcomes(acts, outcomes), t \in SUBSET FieldValues(plan)}

AlwaysRuns(acts) == FALSE

\* if not actions: return state
NothingToRun(acts) == acts = <<>>

execute_plan(envs) ==
    /\ CanRun("execute_plan")
    /\ IF NothingToRun(actions)
       THEN /\ Goto("finalize_step")
            /\ proposed' = <<>> /\ raw_plan' = NoReply
            /\ UNCHANGED <<observed, step, done, completion_via, maybe_done,
                           planning_mode, stepScratch, loopMemory, execTrace,
                           hashTrace, history_entry>>
       ELSE LET expectations == _extract_form_expectations(plan_steps) IN
            \E env \in envs :
            LET oc == [i \in DOMAIN actions |->
                          Settle(actions[i].action, env.run[i])]
                run == ExecuteFrom(actions, 1, oc, top_elements, elements,
                                   NoTrace)
                confirmed ==
                    _dom_confirm_issue(expectations, env.texts, env.dom_check)
            IN
            \E current_hash \in Hashes, detect_error \in BOOLEAN :
            (detect_error => current_hash = 0) /\
            LET same == UiSame(last_image_hash, current_hash) IN
            IF run.raised # ""
            THEN Raise(run.raised)
            ELSE /\ attempted' = run.attempted
                 /\ executed_ids' = run.executed
                 /\ failed_ids' = run.failed
                 /\ touched' = run.touched
                 /\ page' = env
                 /\ prev_hash' = last_image_hash
                 /\ done' = (done \/ confirmed)
                 /\ completion_via' =
                        IF confirmed /\ completion_via = None
                        THEN "dom_confirmation" ELSE completion_via
                 /\ IF detect_error
                    THEN /\ ui_same' = FALSE
                         /\ measured' = "error"
                         /\ UNCHANGED <<last_image_hash, no_change_steps,
                                        ineffective_targets, tried_ids,
                                        acted>>
                    ELSE /\ ui_same' = same
                         /\ measured' = IF same THEN "same" ELSE "changed"
                         /\ last_image_hash' = current_hash
                         /\ no_change_steps' =
                                NoChangeAfter(same, no_change_steps)
                         /\ ineffective_targets' =
                                IneffectiveAfter(same, ineffective_targets,
                                                 run.executed)
                         /\ tried_ids' = TriedAfter(tried_ids, run.executed)
                         /\ acted' = acted \cup
                                {Control(_resolve_element(top_elements,
                                                          elements, tid)) :
                                    tid \in SeqToSet(run.executed)}
                 /\ followup_hint' = followup_hint \cup run.notes
                 /\ proposed' = <<>> /\ raw_plan' = NoReply
                 /\ Goto("finalize_step")
                 /\ UNCHANGED <<observed, step, maybe_done, planning_mode,
                                elements, top_elements, instruction,
                                plan_steps, actions, last_actions, history,
                                hashTrace, history_entry>>

(***************************************************************************)
(* finalize_step, followed by the graph's should_continue edge.            *)
(***************************************************************************)
InstrText(instr) == IF instr = None THEN "" ELSE instr

PlanDone(plan) == plan.type # "none" /\ plan.done

FinalDoneNoCap(was_done, plan, instr, new_step) ==
    \/ was_done
    \/ PlanDone(plan)
    \/ HasCompletionPhrase(InstrText(instr))

FinalDone(was_done, plan, instr, new_step) ==
    \/ was_done
    \/ PlanDone(plan)
    \/ HasCompletionPhrase(InstrText(instr))
    \/ new_step >= MAX_STEPS

FinalReason(was_done, plan, instr, new_step, via) ==
    LET reason ==
            IF PlanDone(plan) THEN "plan_steps"
            ELSE IF ~was_done /\ HasCompletionPhrase(InstrText(instr))
            THEN "navigator_instruction"
            ELSE IF new_step >= MAX_STEPS THEN "max_steps"
            ELSE None
    IN IF via # None THEN via ELSE reason

KeepAll(s, n) == s

LastN(s, n) == IF Len(s) > n THEN SubSeq(s, Len(s) - n + 1, Len(s)) ELSE s

ClearedAlways(is_done, value, empty) == empty

\* if not done: the step-scoped field is reset for the next iteration
Cleared(is_done, value, empty) == IF is_done THEN value ELSE empty

HistoryEntryNoHint(new_step, hint) == [step |-> new_step, followup |-> {}]

\* history_entry: the step number and the follow-up notes it quotes
HistoryEntry(new_step, hint) == [step |-> new_step, followup |-> hint]

finalize_step ==
    /\ CanRun("finalize_step")
    /\ LET new_step == step + 1
           now_done == FinalDone(done, plan_steps, instruction, new_step)
       IN
       /\ step' = new_step
       /\ done' = now_done
       /\ completion_via' =
              FinalReason(done, plan_steps, instruction, new_step,
                          completion_via)
       /\ history' = LastN(Append(history, new_step), HISTORY_WINDOW)
       /\ last_actions' = actions
       /\ instruction' = Cleared(now_done, instruction, None)
       /\ plan_steps' = Cleared(now_done, plan_steps, NoPlan)
       /\ elements' = Cleared(now_done, elements, <<>>)
       /\ top_elements' = Cleared(now_done, top_elements, <<>>)
       /\ actions' = Cleared(now_done, actions, <<>>)
       /\ followup_hint' = Cleared(now_done, followup_hint, {})
       /\ maybe_done' = (now_done \/ maybe_done)
       /\ pc' = IF now_done THEN "END" ELSE "capture_ui"
       /\ supersteps' = supersteps + 1
       /\ attempted' = <<>>
       /\ executed_ids' = <<>>
       /\ failed_ids' = <<>>
       /\ measured' = "none"
       /\ prev_hash' = NoHash
       /\ page' = NoPage
       /\ touched' = <<>>
       /\ history_entry' = HistoryEntry(new_step, followup_hint)
       /\ observed' = <<>>
       /\ UNCHANGED <<error, planning_mode, proposed, raw_plan, tried_ids,
                      ineffective_targets, last_image_hash, ui_same,
                      no_change_steps, hashTrace, acted>>

(***************************************************************************)
(* The whole run.                                                          *)
(***************************************************************************)
Observe == step < MaxSteps /\ capture_ui(RunCatalogs)

Plan == agent_a(RunPlannerReplies, {FALSE})

Rank == score_elements

Propose == agent_b(RunReplies)

Execute == execute_plan(RunEnvs(actions, plan_steps, Outcomes))

Finalize == finalize_step

Next ==
    \/ Observe
    \/ Plan
    \/ Rank
    \/ Propose
    \/ Execute
    \/ Finalize

Spec == Init /\ [][Next]_vars

(***************************************************************************)
(* The run to its end: the step cap against the graph's recursion limit.   *)
(***************************************************************************)
ObserveLong == capture_ui({<<>>, <<Elem("0", "button")>>})

PlanLong == agent_a({r \in PlannerReplies : (r.plan.type = "form") = r.plan.done},
                    BOOLEAN)

ProposeLong == agent_b(LongReplies)

ExecuteLong == execute_plan(RunEnvs(actions, plan_steps, LongOutcomes))

NextLong ==
    \/ ObserveLong
    \/ PlanLong
    \/ Rank
    \/ ProposeLong
    \/ ExecuteLong
    \/ Finalize
    \/ GraphRecursionError

SpecLong == Init /\ [][NextLong]_vars

(***************************************************************************)
(* The Validator alone: agent_b applied once to every bounded reply, on    *)
(* every bounded candidate set, in the state a first step hands it.        *)
(***************************************************************************)
InitValidator ==
    /\ pc = "agent_b"
    /\ supersteps = 3
    /\ error = ""
    /\ step = 0
    /\ done = FALSE
    /\ completion_via = None
    /\ observed = <<>>
    /\ elements \in Catalogs
    /\ top_elements = elements
    /\ instruction = InstrPlain
    /\ plan_steps = NoPlan
    /\ actions = <<>>
    /\ proposed = <<>>
    /\ raw_plan = NoReply
    /\ maybe_done = FALSE
    /\ followup_hint = {}
    /\ tried_ids = {}
    /\ ineffective_targets = {}
    /\ last_image_hash = NoHash
    /\ ui_same = FALSE
    /\ no_change_steps = 0
    /\ last_actions = <<>>
    /\ planning_mode = "vision"
    /\ history = <<>>
    /\ attempted = <<>>
    /\ executed_ids = <<>>
    /\ failed_ids = <<>>
    /\ measured = "none"
    /\ prev_hash = NoHash
    /\ page = NoPage
    /\ touched = <<>>
    /\ history_entry = NoEntry
    /\ pixels = <<>>
    /\ fingerprint = NoPrint
    /\ layers = NoScore
    /\ acted = {}

Validate == agent_b(Replies(ProposedActions, MaxBatch))

NextValidator == Validate

SpecValidator == InitValidator /\ [][NextValidator]_vars

(***************************************************************************)
(* The Ranker alone, over catalogs longer than K.                          *)
(***************************************************************************)
MaxCatalog == 27

RankElem(i, role, name) ==
    [id |-> ToString(i - 1), role |-> role, name |-> name, landmark |-> "",
     placeholder |-> ""]

SampleNames == <<"", "Create issue", "Title", "Delete", "7">>

\* n elements of one role without a name
Uniform(n, role) == [i \in 1 .. n |-> RankElem(i, role, "")]

\* DEFAULT_TOP_K buttons followed by elements of another role
ButtonsThen(n, role) ==
    [i \in 1 .. n |->
        RankElem(i, IF i <= DEFAULT_TOP_K THEN "button" ELSE role, "")]

\* roles and names cycling through the samples
Mixed(n) ==
    [i \in 1 .. n |->
        RankElem(i,
                 <<"button", "textbox", "combobox", "link">>[(i % 4) + 1],
                 SampleNames[(i % Len(SampleNames)) + 1])]

RankCatalogs ==
    {Uniform(0, "textbox"), Uniform(DEFAULT_TOP_K + 2, "textbox"),
     Uniform(MaxCatalog, "textbox"),
     ButtonsThen(DEFAULT_TOP_K + 2, "textbox"),
     ButtonsThen(DEFAULT_TOP_K + 2, "combobox"),
     Mixed(3), Mixed(DEFAULT_TOP_K + 2)}

RankInstructions ==
    {InstrPlain, "Fill in the title", "Type hello into the search box",
     "Select the priority", "Fill the form details"}

InitRanker ==
    /\ pc = "score_elements"
    /\ supersteps = 2
    /\ error = ""
    /\ step = 0
    /\ done = FALSE
    /\ completion_via = None
    /\ observed = <<>>
    /\ elements \in RankCatalogs
    /\ top_elements = <<>>
    /\ instruction \in RankInstructions
    /\ plan_steps \in {p \in Plans : ~p.done}
    /\ actions = <<>>
    /\ proposed = <<>>
    /\ raw_plan = NoReply
    /\ maybe_done = FALSE
    /\ followup_hint = {}
    /\ tried_ids \in {{}, {"0"}, {"0", "11"}}
    /\ ineffective_targets \in {t \in {{}, {"0"}} : t \subseteq tried_ids}
    /\ last_image_hash = NoHash
    /\ ui_same \in BOOLEAN
    /\ no_change_steps = 0
    /\ last_actions = <<>>
    /\ planning_mode = "vision"
    /\ history = <<>>
    /\ attempted = <<>>
    /\ executed_ids = <<>>
    /\ failed_ids = <<>>
    /\ measured = "none"
    /\ prev_hash = NoHash
    /\ page = NoPage
    /\ touched = <<>>
    /\ history_entry = NoEntry
    /\ pixels = <<>>
    /\ fingerprint = NoPrint
    /\ layers = NoScore
    /\ acted = {}

NextRanker == Rank

SpecRanker == InitRanker /\ [][NextRanker]_vars

(***************************************************************************)
(* One observation, over page scans whose records overlap.                 *)
(***************************************************************************)
MaxScan == 2
MaxX == 2

\* what a page scan can find: controls at x = 0 .. MaxX (0 and 1 round to
\* the same key), named or not, of a preferred role or not
ScanRecords ==
    {[role |-> r, name |-> n, landmark |-> "", placeholder |-> "",
      bounding_box |-> [x |-> x, y |-> 0, width |-> 30, height |-> 20]] :
        r \in {"button", "link"}, n \in {"", "Go", "Save"}, x \in 0 .. MaxX}

\* the scan numbers its records as it appends them
Scans ==
    {[i \in DOMAIN recs |->
        [id |-> ToString(i - 1), role |-> recs[i].role,
         name |-> recs[i].name, landmark |-> recs[i].landmark,
         placeholder |-> recs[i].placeholder,
         bounding_box |-> recs[i].bounding_box]] :
        recs \in SeqsUpTo(ScanRecords, MaxScan)}

ObserveScan == capture_ui(Scans)

NextCatalog == ObserveScan

SpecCatalog == Init /\ [][NextCatalog]_vars

(***************************************************************************)
(* The second half of a step: execute_plan on every page behaviour, then   *)
(* finalize_step, as functions of the state they are handed.               *)
(***************************************************************************)
Act(type, tid, param) == [action |-> type, target_id |-> tid, param |-> param]

\* batches as the Validator hands them over, and some it would not
StepBatches ==
    {<<Act(t, "0", p)>> : t \in {"fill", "select", "press"},
                          p \in {"canon", "alt", "none"}}
    \cup {<<Act("click", "0", "none")>>,
          <<Act("click", "0", "none"), Act("click", "1", "none")>>,
          <<Act("fill", "0", "canon"), Act("click", "1", "none")>>}

StepCatalogs ==
    {<<Elem("0", r), Elem("1", "button")>> :
        r \in {"textbox", "button", "combobox", "menuitem", "link"}}

StepPlans ==
    {NoPlan,
     [type |-> "form", done |-> FALSE, fields |-> <<Field("Title", "Bug")>>],
     [type |-> "form", done |-> TRUE, fields |-> <<Field("Title", "Bug")>>],
     [type |-> "form", done |-> FALSE,
      fields |-> <<Field("Title", "Bug"), Field("Due date", "Friday")>>],
     [type |-> "form", done |-> FALSE,
      fields |-> <<Field("Due date", "Friday")>>],
     [type |-> "form", done |-> FALSE, fields |-> <<Field("Title", "")>>]}

StepInstructions ==
    {None, InstrPlain, InstrGoal, "GOAL COMPLETED", "Mark the goal completed"}

StepMemories ==
    {[tried |-> {}, ineffective |-> {}, hash |-> NoHash],
     [tried |-> {"0"}, ineffective |-> {"0"}, hash |-> 1],
     [tried |-> {"0", "1"}, ineffective |-> {}, hash |-> 0]}

\* done as agent_a can leave it
StepDone ==
    {[done |-> FALSE, via |-> None], [done |-> TRUE, via |-> "dom_check"],
     [done |-> TRUE, via |-> "navigator_done_signal"]}

\* every batch on every role in a first step, and a one-click batch in
\* every state agent_a and the loop memory can hand over
StepInputs ==
    {[step |-> 0, flag |-> [done |-> FALSE, via |-> None],
      instruction |-> InstrPlain, plan |-> NoPlan, catalog |-> c,
      actions |-> b, memory |-> m] :
        c \in StepCatalogs, b \in StepBatches,
        m \in {[tried |-> {}, ineffective |-> {}, hash |-> NoHash]}}
    \cup
    {[step |-> n, flag |-> f, instruction |-> i, plan |-> p,
      catalog |-> <<Elem("0", "button")>>, actions |-> b, memory |-> m] :
        n \in {0, MAX_STEPS - 2, MAX_STEPS - 1}, f \in StepDone,
        i \in StepInstructions, p \in StepPlans,
        b \in {<<>>, <<Act("click", "0", "none")>>}, m \in StepMemories}

InitStep ==
    \E in \in StepInputs :
        /\ pc = "execute_plan"
        /\ supersteps = 4
        /\ error = ""
        /\ step = in.step
        /\ done = in.flag.done
        /\ completion_via = in.flag.via
        /\ observed = <<>>
        /\ elements = in.catalog
        /\ top_elements = in.catalog
        /\ instruction = in.instruction
        /\ plan_steps = in.plan
        /\ actions = in.actions
        /\ proposed = <<>>
        /\ raw_plan = NoReply
        /\ maybe_done = FALSE
        /\ followup_hint = {}
        /\ tried_ids = in.memory.tried
        /\ ineffective_targets = in.memory.ineffective
        /\ last_image_hash = in.memory.hash
        /\ ui_same = (in.memory.ineffective # {})
        /\ no_change_steps = IF in.memory.ineffective # {} THEN 1 ELSE 0
        /\ last_actions = <<>>
        /\ planning_mode = "vision"
        /\ history = [k \in 1 .. Min(in.step, HISTORY_WINDOW) |->
                         in.step - Min(in.step, HISTORY_WINDOW) + k]
        /\ attempted = <<>>
        /\ executed_ids = <<>>
        /\ failed_ids = <<>>
        /\ measured = "none"
        /\ prev_hash = NoHash
        /\ page = NoPage
        /\ touched = <<>>
        /\ history_entry = NoEntry
        /\ pixels = <<>>
        /\ fingerprint = NoPrint
    /\ layers = NoScore
    /\ acted = {}

\* the pages one action can meet
PagesFor(action) ==
    CASE action = "click" ->
            {[PageOk EXCEPT !.visible = v, !.acts = a] : v, a \in BOOLEAN}
      [] action = "fill" ->
            {[PageOk EXCEPT !.visible = v, !.acts = a, !.has_p = h,
                            !.p_acts = p] : v, a, h, p \in BOOLEAN}
      [] action = "select" ->
            {[PageOk EXCEPT !.status_date = d, !.value_matches = m,
                            !.visible = v, !.acts = a, !.option_role = r,
                            !.option_text = t, !.typeahead = y] :
                d, m, v, a, r, t, y \in BOOLEAN}
      [] OTHER -> {[PageOk EXCEPT !.acts = a] : a \in BOOLEAN}

\* the pages a select can leave behind: reading the control changes
\* nothing, what a click does is up to the page
SelectEffect(pg) ==
    IF SelectClicks(pg) = 0 THEN {pg} ELSE PagesFor("select")

\* the budget can run out before any action but the first
PageRuns(acts) ==
    IF acts = <<>> THEN {<<>>}
    ELSE IF Len(acts) = 1 THEN {<<pg>> : pg \in PagesFor(acts[1].action)}
    ELSE {<<pg>> \o rest :
             pg \in PagesFor(acts[1].action),
             rest \in {<<PageOf("over_budget")>>}
                      \cup {<<p2>> : p2 \in PagesFor(acts[2].action)}}

StepEnvs(acts, plan) ==
    {[run |-> r, texts |-> t, dom_check |-> d] :
        r \in PageRuns(acts), t \in SUBSET FieldValues(plan),
        d \in {"ok", "throws"}}

ExecuteStep == execute_plan(StepEnvs(actions, plan_steps))

NextStep ==
    \/ ExecuteStep
    \/ Finalize

SpecStep == InitStep /\ [][NextStep]_vars

(***************************************************************************)
(* _compute_dhash on the 9x8 grayscale grid the resize hands it.  The      *)
(* Python integer it returns has 64 bits; it is kept as four 16-bit limbs, *)
(* least significant first.                                                *)
(***************************************************************************)
Cols == 9
Rows == 8
MaxGray == 255
LimbBits == 16

\* pixels[row * 9 + col] of the flat getdata() list
Pixel(px, row, col) == px[row * Cols + col + 1]

DiffStride8(px) ==
    [i \in 0 .. (Rows * 8 - 1) |->
        px[(i \div 8) * 8 + (i % 8) + 1] > px[(i \div 8) * 8 + (i % 8) + 2]]

\* diff, indexed from 0 in the order the two loops append to it
Diff(px) ==
    [i \in 0 .. (Rows * 8 - 1) |->
        Pixel(px, i \div 8, i % 8) > Pixel(px, i \div 8, (i % 8) + 1)]

\* sum of 1 << i over the set bits lo .. hi of one limb
RECURSIVE SumBits(_, _, _)
SumBits(diff, lo, hi) ==
    IF lo > hi THEN 0
    ELSE (IF diff[lo] THEN 2 ^ (lo % LimbBits) ELSE 0)
         + SumBits(diff, lo + 1, hi)

_compute_dhash(px) ==
    LET diff == Diff(px) IN
    [k \in 0 .. ((Rows * 8) \div LimbBits - 1) |->
        SumBits(diff, LimbBits * k, LimbBits * k + LimbBits - 1)]

\* bit i of the returned integer
BitOf(h, i) == (h[i \div LimbBits] \div (2 ^ (i % LimbBits))) % 2 = 1

Flat(f) == [n \in 1 .. (Rows * Cols) |-> f[(n - 1) \div Cols, (n - 1) % Cols]]

\* sample screenshots after the resize: flat, checkerboards, gradients
BaseGrids ==
    {Flat([r \in 0 .. (Rows - 1), c \in 0 .. (Cols - 1) |-> 128]),
     Flat([r \in 0 .. (Rows - 1), c \in 0 .. (Cols - 1) |->
              IF (r + c) % 2 = 0 THEN 0 ELSE MaxGray]),
     Flat([r \in 0 .. (Rows - 1), c \in 0 .. (Cols - 1) |->
              IF (r + c) % 2 = 0 THEN MaxGray ELSE 0]),
     Flat([r \in 0 .. (Rows - 1), c \in 0 .. (Cols - 1) |-> 28 * c]),
     Flat([r \in 0 .. (Rows - 1), c \in 0 .. (Cols - 1) |-> MaxGray - 28 * c]),
     Flat([r \in 0 .. (Rows - 1), c \in 0 .. (Cols - 1) |-> 30 * r])}

\* each sample with any one pixel black or white
Grids ==
    {[g EXCEPT ![n] = v] :
        g \in BaseGrids, n \in 1 .. (Rows * Cols), v \in {0, MaxGray}}

InitHash ==
    /\ pc = "_compute_dhash"
    /\ supersteps = 0
    /\ error = ""
    /\ step = 0
    /\ done = FALSE
    /\ completion_via = None
    /\ observed = <<>>
    /\ elements = <<>>
    /\ top_elements = <<>>
    /\ instruction = None
    /\ plan_steps = NoPlan
    /\ actions = <<>>
    /\ proposed = <<>>
    /\ raw_plan = NoReply
    /\ maybe_done = FALSE
    /\ followup_hint = {}
    /\ tried_ids = {}
    /\ ineffective_targets = {}
    /\ last_image_hash = NoHash
    /\ ui_same = FALSE
    /\ no_change_steps = 0
    /\ last_actions = <<>>
    /\ planning_mode = None
    /\ history = <<>>
    /\ attempted = <<>>
    /\ executed_ids = <<>>
    /\ failed_ids = <<>>
    /\ measured = "none"
    /\ prev_hash = NoHash
    /\ page = NoPage
    /\ touched = <<>>
    /\ history_entry = NoEntry
    /\ pixels \in Grids
    /\ fingerprint = NoPrint
    /\ layers = NoScore
    /\ acted = {}

compute_dhash ==
    /\ pc = "_compute_dhash"
    /\ fingerprint' = _compute_dhash(pixels)
    /\ pc' = "returned"
    /\ UNCHANGED <<supersteps, error, observed, step, done, completion_via,
                   maybe_done, planning_mode, proposed, raw_plan,
                   stepScratch, loopMemory, execTrace, history_entry,
                   pixels, layers>>

NextHash == compute_dhash

SpecHash == InitHash /\ [][NextHash]_vars

(***************************************************************************)
(* A run on a page whose controls change places between observations.      *)
(***************************************************************************)
Named(i, r, n) == [Elem(i, r) EXCEPT !.name = n]

RefreshCatalogs ==
    {<<Named("0", "button", "Create"), Named("1", "textbox", "Title")>>,
     <<Named("0", "textbox", "Title"), Named("1", "button", "Create")>>}

ObserveRefresh == step < MaxSteps /\ capture_ui(RefreshCatalogs)

NextRefresh ==
    \/ ObserveRefresh
    \/ Plan
    \/ Rank
    \/ ProposeLong
    \/ ExecuteLong
    \/ Finalize

SpecRefresh == Init /\ [][NextRefresh]_vars

(***************************************************************************)
(* score_element alone: one element scored against one instruction.        *)
(***************************************************************************)
ScoreInstructions ==
    {"", InstrPlain, "Create a search filter", "Create a search index",
     "Open the settings to create a profile", "Search for new issues",
     "Renew the plan", "Find issues", "Go to the inbox", "Fill in the title",
     "Close the dialog", "Delete the draft"}

ScoreNames ==
    {"Filter", "Filters", "Search", "Settings", "Create issue", "Title",
     "Delete", "Deleted items", "Close", "Delete filter"}

InitScore ==
    /\ pc = "score_element"
    /\ supersteps = 0
    /\ error = ""
    /\ step = 0
    /\ done = FALSE
    /\ completion_via = None
    /\ observed = <<>>
    /\ elements \in {<<RankElem(1, "button", n)>> : n \in ScoreNames}
    /\ top_elements = <<>>
    /\ instruction \in ScoreInstructions
    /\ plan_steps = NoPlan
    /\ actions = <<>>
    /\ proposed = <<>>
    /\ raw_plan = NoReply
    /\ maybe_done = FALSE
    /\ followup_hint = {}
    /\ tried_ids = {}
    /\ ineffective_targets = {}
    /\ last_image_hash = NoHash
    /\ ui_same = FALSE
    /\ no_change_steps = 0
    /\ last_actions = <<>>
    /\ planning_mode = None
    /\ history = <<>>
    /\ attempted = <<>>
    /\ executed_ids = <<>>
    /\ failed_ids = <<>>
    /\ measured = "none"
    /\ prev_hash = NoHash
    /\ page = NoPage
    /\ touched = <<>>
    /\ history_entry = NoEntry
    /\ pixels = <<>>
    /\ fingerprint = NoPrint
    /\ layers = NoScore
    /\ acted = {}

Score ==
    /\ pc = "score_element"
    /\ LET elem == elements[1]
           full_name == Strip(Strip(elem.name) \o " " \o
                              Strip(elem.placeholder))
           intent == _classify_intent(instruction)
       IN layers' =
              [intent |-> intent,
               conflict |-> ConflictPenalty(intent, TokenSet(full_name),
                                            TokenSet(instruction)),
               destructive |-> DestructivePenalty(TokenSet(full_name),
                                                  TokenSet(instruction)),
               score |-> score_element(elem, instruction, tried_ids, ui_same)]
    /\ pc' = "returned"
    /\ UNCHANGED <<supersteps, error, observed, step, done, completion_via,
                   maybe_done, planning_mode, proposed, raw_plan,
                   stepScratch, loopMemory, execTrace, history_entry,
                   pixels, fingerprint>>

NextScore == Score

SpecScore == InitScore /\ [][NextScore]_vars

(***************************************************************************)
(* Properties of the Validator (checked under SpecValidator).              *)
(***************************************************************************)
Validated == pc = "execute_plan"

TargetOf(a) == Str(a.target_id)

\* C1: the list emitted by the Validator never holds two actions with the
\* same target id.
C1_UniqueTargets ==
    \A i, j \in DOMAIN actions :
        i # j => TargetOf(actions[i]) # TargetOf(actions[j])

\* C1 witness: the Proposer named one target twice and the Validator emitted
\* an action for it.
C1_Witness ==
    /\ Validated
    /\ \E i, j \in DOMAIN proposed :
          /\ i < j
          /\ proposed[i].target_id # None
          /\ TargetOf(proposed[i]) = TargetOf(proposed[j])
          /\ \E k \in DOMAIN actions :
                TargetOf(actions[k]) = TargetOf(proposed[i])

\* C2: an emitted fill targets a candidate whose role is textbox, textarea,
\* searchbox, combobox or contenteditable, and an emitted select targets a
\* combobox or a menuitem.
C2_RoleCompatible ==
    \A i \in DOMAIN actions :
        LET role == role_by_id(top_elements, TargetOf(actions[i])) IN
        /\ actions[i].action = "fill" =>
               role \in {"textbox", "textarea", "searchbox", "combobox",
                         "contenteditable"}
        /\ actions[i].action = "select" => role \in {"combobox", "menuitem"}

\* C2 witness: a fill carrying its text was proposed on a button, and the
\* Validator has run.
C2_Witness ==
    /\ Validated
    /\ \E i \in DOMAIN proposed :
          /\ proposed[i].action = "fill"
          /\ proposed[i].param = "canon"
          /\ role_by_id(top_elements, TargetOf(proposed[i])) = "button"

\* C3 (as claimed): every emitted action's target id is the id of an element
\* of the candidate set.
C3_TargetsAreCandidates ==
    \A i \in DOMAIN actions : TargetOf(actions[i]) \in Ids(top_elements)

(***************************************************************************)
(* Properties of a run (checked under Spec and SpecLong).                  *)
(***************************************************************************)
RunStopped == pc \in {"END", "aborted"}

Executed == pc = "finalize_step" /\ measured # "none"

\* C4 (as claimed): a Proposer reply that is not JSON, or an action with a
\* dangling target id, never aborts the run.
C4_MalformedNeverAborts ==
    pc = "aborted" =>
        error \notin {"proposer_non_json", "element_not_found",
                      "invalid_action_plan"}

\* C5 (as claimed): while the budget is not exceeded every action of the batch
\* is attempted once in batch order, and no failure of an action at any stage
\* (element not found, locator resolution, the action itself) ends the run.
C5_EveryActionAttempted ==
    /\ pc = "aborted" =>
           error \notin {"element_not_found", "locator_unresolved",
                         "invalid_action_plan"}
    /\ (Executed /\ "budget" \notin followup_hint) =>
           attempted = [i \in DOMAIN actions |-> actions[i].target_id]

\* C6 (as claimed): a run that receives no completion signal and in which no
\* node raises ends with step = 15, done and the reason "max_steps".
C6_StopsAtMaxSteps ==
    (/\ RunStopped
     /\ error \in {"", "recursion_limit"}
     /\ completion_via \in {None, "max_steps"})
    => (step = MAX_STEPS /\ done /\ completion_via = "max_steps")

\* C7 (as claimed): a run only ever stops in a final state with done set and
\* a completion reason recorded.
C7_StopsDoneWithReason ==
    RunStopped => (done /\ completion_via # None)

\* C8 (as claimed): whenever the fingerprint of this step's screenshot equals
\* the stored one, the step's ui_same flag is true.
C8_EqualHashMeansSame ==
    (Executed /\ measured # "error" /\ last_image_hash = prev_hash) => ui_same

\* C9 (as claimed): when the previous step was measured unchanged, every
\* target id of its validated batch is in ineffective_targets when the next
\* step's ranking runs.
C9_BatchTargetsIneffective ==
    (pc = "score_elements" /\ ui_same /\ last_actions # <<>>) =>
        \A i \in DOMAIN last_actions :
            last_actions[i].target_id \in ineffective_targets

\* C10: when a step's measurement finds the fingerprint different from the
\* stored one, ineffective_targets is empty and no_change_steps is 0 at the
\* end of the step (after finalize_step).
C10_ChangeClears ==
    [][(/\ Executed
        /\ measured # "error"
        /\ last_image_hash # prev_hash)
       => (ineffective_targets' = {} /\ no_change_steps' = 0)]_vars

\* C10 witness: the third step of a run measured a fingerprint different from
\* the one the second step stored.
C10_Witness ==
    /\ Executed
    /\ measured = "changed"
    /\ prev_hash # NoHash
    /\ last_image_hash # prev_hash
    /\ step = 2
    /\ attempted # <<>>

(***************************************************************************)
(* Properties of the loop memory (checked under Spec and SpecLong).        *)
(***************************************************************************)
\* C11: tried_ids only grows: no node of a step (execute_plan,
\* finalize_step or any other) removes an id from it.
C11_TriedOnlyGrows == [][tried_ids \subseteq tried_ids']_vars

\* C11 witness: a later step of a run in which actions were attempted and
\* none succeeded has been executed while tried_ids held ids of earlier steps.
C11_Witness ==
    /\ Executed
    /\ step >= 1
    /\ attempted # <<>>
    /\ executed_ids = <<>>
    /\ tried_ids # {}

\* C12 (as claimed): after execute_plan every target id the Executor
\* attempted in the step, successful or failed, is in tried_ids.
C12_AttemptedAreTried ==
    Executed => SeqToSet(attempted) \subseteq tried_ids

\* C13: history holds one entry per finalized step, at most HISTORY_WINDOW
\* of them, and they are the most recent steps in step order; a no-op step
\* (every proposed action dropped) is recorded like any other.
C13_HistoryWindow ==
    LET n == Min(step, HISTORY_WINDOW) IN
    /\ Len(history) = n
    /\ \A i \in 1 .. n : history[i] = step - n + i

\* C13 witness: the window is full, older entries have been dropped, and the
\* step finalized last was a no-op that left no action to execute.
C13_Witness ==
    /\ pc = "capture_ui"
    /\ step > HISTORY_WINDOW
    /\ Len(history) = HISTORY_WINDOW
    /\ last_actions = <<>>

(***************************************************************************)
(* Properties of the Ranker (checked under SpecRanker).                    *)
(***************************************************************************)
Ranked == pc = "agent_b" /\ error = ""

K == current_top_k(instruction, plan_steps)

ScoreIn(e) ==
    RankScore(e, instruction, plan_steps, tried_ids, ineffective_targets,
              ui_same)

CountRole(elems, roles) ==
    Cardinality({i \in DOMAIN elems : elems[i].role \in roles})

\* C14: for every element and instruction, the score with the element's id
\* in tried_ids is strictly lower than without it, and with ui_same it is
\* strictly lower still.
C14_RetryPenaltyOrder ==
    \A i \in DOMAIN elements :
        LET e == elements[i] IN
        /\ score_element(e, instruction, {e.id}, TRUE)
               < score_element(e, instruction, {e.id}, FALSE)
        /\ score_element(e, instruction, {e.id}, FALSE)
               < score_element(e, instruction, {}, ui_same)

\* C14 witness: the Ranker has scored a catalog in which a tried element
\* got its penalty while the UI was unchanged.
C14_Witness ==
    /\ Ranked
    /\ ui_same
    /\ \E i \in DOMAIN top_elements :
          /\ top_elements[i].id \in tried_ids
          /\ top_elements[i].id \notin ineffective_targets
          /\ top_elements[i].score =
                 score_element(elements[1], instruction, {}, FALSE) - 50

C18_Coverage ==
    Ranked =>
        /\ (In("fill", Lower(instruction)) \/ In("typ", Lower(instruction)))
               => CountRole(top_elements, InputRoles)
                      >= Min(COVERAGE_EXTRA, CountRole(elements, InputRoles))
        /\ (In("select", Lower(instruction))
                \/ In("choos", Lower(instruction)))
               => CountRole(top_elements, {"combobox"})
                      >= Min(COVERAGE_EXTRA,
                             CountRole(elements, {"combobox"}))
        /\ \A i, j \in DOMAIN top_elements :
               i # j => top_elements[i].id # top_elements[j].id

\* position of an id in the catalog's scan order
ScanPos(tid) == CHOOSE i \in DOMAIN elements : elements[i].id = tid

\* a ranks before b: higher score, or equal score and earlier in the scan
RanksBefore(a, b) ==
    \/ a.score > b.score
    \/ a.score = b.score /\ ScanPos(a.id) < ScanPos(b.id)

\* C19: the first min(K, n) candidates are the highest-scoring elements of
\* the catalog in descending score order, equal scores in scan order.
C19_TopKStable ==
    Ranked =>
        LET m == Min(K, Len(elements)) IN
        /\ Len(top_elements) >= m
        /\ \A i \in 1 .. m :
              /\ top_elements[i].score
                     = ScoreIn(elements[ScanPos(top_elements[i].id)])
              /\ \A j \in 1 .. m :
                     i < j => RanksBefore(top_elements[i], top_elements[j])
              /\ \A k \in DOMAIN elements :
                     (\A j \in 1 .. m : top_elements[j].id # elements[k].id)
                     => (\/ ScoreIn(elements[k]) < top_elements[i].score
                         \/ /\ ScoreIn(elements[k]) = top_elements[i].score
                            /\ k > ScanPos(top_elements[i].id))

\* C19 witness: a catalog longer than K was ranked and the cut fell between
\* two elements of equal score.
C19_Witness ==
    /\ Ranked
    /\ Len(elements) > K
    /\ \E k \in DOMAIN elements :
          /\ \A j \in 1 .. K : top_elements[j].id # elements[k].id
          /\ ScoreIn(elements[k]) = top_elements[K].score

(***************************************************************************)
(* Properties of the catalog (checked under SpecCatalog).                  *)
(***************************************************************************)
Observed == pc = "agent_a" /\ error = ""

\* a and b are the same control but for the id
SameRecord(a, b) ==
    /\ a.role = b.role
    /\ a.name = b.name
    /\ a.bounding_box = b.bounding_box

\* a is preferred over b: named over unnamed, then the longer name, then a
\* role of button, textbox or combobox
Preferred(a, b) ==
    \/ (a.name # "" /\ b.name = "")
    \/ /\ (a.name # "") = (b.name # "")
       /\ \/ Len(a.name) > Len(b.name)
          \/ /\ Len(a.name) = Len(b.name)
             /\ role_prio(a) > role_prio(b)

\* C15: of the observed records that share a rounded bounding-box key the
\* catalog keeps exactly one, the one preferred by name, name length and
\* role, and among equally preferred records the one seen first.
C15_KeepsPreferred ==
    Observed =>
        \A i \in DOMAIN observed :
            LET kept == {k \in DOMAIN elements :
                            SpatialKey(elements[k]) = SpatialKey(observed[i])}
                wins == \A j \in DOMAIN observed :
                            (j # i /\ SpatialKey(observed[j])
                                          = SpatialKey(observed[i]))
                            => \/ Preferred(observed[i], observed[j])
                               \/ /\ ~Preferred(observed[j], observed[i])
                                  /\ i < j
            IN /\ Cardinality(kept) = 1
               /\ wins <=> \A k \in kept : SameRecord(elements[k], observed[i])
                           /\ \A j \in 1 .. (i - 1) :
                                  ~SameRecord(observed[j], observed[i])
                                  \/ SpatialKey(observed[j])
                                         # SpatialKey(observed[i])

\* C15 witness: an unnamed record was seen before a named one of the same
\* group, and the catalog has been built.
C15_Witness ==
    /\ Observed
    /\ \E i, j \in DOMAIN observed :
          /\ i < j
          /\ SpatialKey(observed[i]) = SpatialKey(observed[j])
          /\ observed[i].bounding_box # observed[j].bounding_box
          /\ observed[i].name = ""
          /\ observed[j].name # ""

\* C16: the ids of a catalog are "0" .. "n-1" in list order, and no two of
\* its records have the same rounded bounding-box key.
C16_DenseIdsDistinctKeys ==
    /\ \A i \in DOMAIN elements : elements[i].id = ToString(i - 1)
    /\ \A i, j \in DOMAIN elements :
           i # j => SpatialKey(elements[i]) # SpatialKey(elements[j])

\* C16 witness: a record was dropped ahead of a kept one, so the kept one
\* got a new id.
C16_Witness ==
    /\ Observed
    /\ \E k \in DOMAIN elements, i \in DOMAIN observed :
          /\ SameRecord(elements[k], observed[i])
          /\ elements[k].id # observed[i].id
          /\ \A j \in DOMAIN observed :
                 SameRecord(observed[j], observed[i]) => j = i

(***************************************************************************)
(* Properties of the reply parsing (checked under SpecValidator).          *)
(***************************************************************************)
IsActionObject(v) == IsDict(v) /\ ~v.has_actions

IsFullObject(v) ==
    /\ HasActions(v)
    /\ IsList(v.actions)
    /\ \A i \in DOMAIN v.actions.items : IsActionObject(v.actions.items[i])

\* the action objects a reply of one of the five shapes carries, in order
CarriedActions(v) ==
    IF IsFullObject(v) THEN v.actions.items
    ELSE IF IsList(v) /\ Len(v.items) = 1 /\ IsFullObject(v.items[1])
    THEN v.items[1].actions.items
    ELSE IF IsList(v) THEN v.items
    ELSE IF IsActionObject(v) THEN <<v>>
    ELSE <<v.actions>>

\* v has one of the five shapes: a full object, a one-element list wrapping
\* one, a bare list of actions, a single action, an object whose actions
\* field is a single action
HasKnownShape(v) ==
    \/ IsFullObject(v)
    \/ IsList(v) /\ Len(v.items) = 1 /\ IsFullObject(v.items[1])
    \/ IsList(v) /\ \A i \in DOMAIN v.items : IsActionObject(v.items[i])
    \/ IsActionObject(v)
    \/ HasActions(v) /\ IsActionObject(v.actions)

Ran == pc = "finalize_step" /\ page # NoPage

\* action i came up inside the budget
CameUp(i) == \A j \in 1 .. i : page.run[j].in_budget

RoleOf(i) == resolved_role(top_elements, elements, actions[i].target_id)

\* action i is a select that got as far as _safe_select and opened the control
SelectOpened(i) ==
    /\ actions[i].action = "select" /\ actions[i].param = "canon"
    /\ RoleOf(i) \in {"combobox", "menuitem"}
    /\ CameUp(i) /\ ~page.run[i].status_date
    /\ ~page.run[i].value_matches
    /\ page.run[i].visible /\ page.run[i].acts

Succeeded(i) ==
    /\ actions[i].target_id \in SeqToSet(executed_ids)
    /\ actions[i].target_id \notin SeqToSet(failed_ids)

\* C21: a select whose role="option" match fails but whose visible-text
\* match succeeds is a success: its target is executed and not failed
C21_TextMatchSucceeds ==
    Ran =>
        \A i \in DOMAIN actions :
            (/\ SelectOpened(i)
             /\ ~page.run[i].option_role
             /\ page.run[i].option_text) => Succeeded(i)

C21_Witness ==
    /\ Ran
    /\ \E i \in DOMAIN actions :
          /\ SelectOpened(i)
          /\ ~page.run[i].option_role /\ page.run[i].option_text
          /\ Succeeded(i)

\* C22: once the control is open, a select succeeds when the role="option"
\* match, the visible-text match or the typeahead succeeds, and is failed
\* only when all three fail
C22_ThreeStrategies ==
    Ran =>
        \A i \in DOMAIN actions :
            SelectOpened(i) =>
                (Succeeded(i) <=>
                    \/ page.run[i].option_role
                    \/ page.run[i].option_text
                    \/ page.run[i].typeahead)

(***************************************************************************)
(* The step budget (checked under Spec).                                   *)
(***************************************************************************)
\* the budget was found exceeded when action k came up
BudgetHit(k) ==
    /\ k \in DOMAIN page.run
    /\ ~page.run[k].in_budget
    /\ \A j \in 1 .. (k - 1) : page.run[j].in_budget

\* C23: once the step budget is found exceeded before an action, no
\* remaining action of the batch is executed, the skip is noted, the step is
\* still measured and finalized, its history entry carries the note, and
\* the loop goes on (or ends with done) instead of aborting
C23_BudgetDegrades ==
    /\ [](Ran =>
            \A k \in DOMAIN actions :
                BudgetHit(k) =>
                    /\ attempted = [j \in 1 .. (k - 1) |-> actions[j].target_id]
                    /\ "budget" \in followup_hint
                    /\ measured # "none"
                    /\ error = "")
    /\ [][(Ran /\ \E k \in DOMAIN actions : BudgetHit(k)) =>
            /\ "budget" \in history_entry'.followup
            /\ history_entry'.step = step'
            /\ pc' = IF done' THEN "END" ELSE "capture_ui"
            /\ error' = ""]_vars

C23_Witness ==
    /\ pc = "capture_ui"
    /\ "budget" \in history_entry.followup
    /\ Len(last_actions) > 1

(***************************************************************************)
(* The fill strategy (checked under SpecStep).                             *)
(***************************************************************************)
\* action i is a fill with a text that came up and got its locator
FillStarted(i) ==
    /\ actions[i].action = "fill" /\ actions[i].param # "none"
    /\ CameUp(i) /\ page.run[i].locator

Failed(i) ==
    /\ actions[i].target_id \in SeqToSet(failed_ids)
    /\ actions[i].target_id \notin SeqToSet(executed_ids)

\* the fill is rejected on its role, before any call on the target
RejectedUpFront(i) ==
    UnfillableRole(RoleOf(i)) =>
        Failed(i) /\ actions[i].target_id \notin SeqToSet(touched)

DirectThrows(pg) == ~pg.acts

FallbackWorks(pg) == pg.has_p /\ pg.p_acts

\* C24 as stated: a fill on a button, link, tab, menuitem or switch is
\* rejected before any page interaction; any other fill is failed exactly
\* when the direct click-then-fill throws and the inner-paragraph fallback
\* is unavailable or throws
C24_FillFailsOnlyOnThrow ==
    Ran =>
        \A i \in DOMAIN actions :
            FillStarted(i) =>
                /\ RejectedUpFront(i)
                /\ ~UnfillableRole(RoleOf(i)) =>
                       /\ actions[i].target_id \in SeqToSet(touched)
                       /\ Failed(i) <=>
                              /\ DirectThrows(page.run[i])
                              /\ ~FallbackWorks(page.run[i])
                       /\ Succeeded(i) <=> ~Failed(i)

\* C24 amended: ... any other fill is failed exactly when the target does
\* not become visible in time, or the direct click-then-fill throws and the
\* inner-paragraph fallback is unavailable or throws
C24_FillSettles ==
    Ran =>
        \A i \in DOMAIN actions :
            FillStarted(i) =>
                /\ RejectedUpFront(i)
                /\ ~UnfillableRole(RoleOf(i)) =>
                       /\ actions[i].target_id \in SeqToSet(touched)
                       /\ Failed(i) <=>
                              \/ ~page.run[i].visible
                              \/ /\ DirectThrows(page.run[i])
                                 /\ ~FallbackWorks(page.run[i])
                       /\ Succeeded(i) <=> ~Failed(i)

\* a visible rich-text editor: the direct fill throws, the inner <p> takes it
C24_Witness ==
    /\ Ran
    /\ \E i \in DOMAIN actions :
          /\ FillStarted(i) /\ ~UnfillableRole(RoleOf(i))
          /\ page.run[i].visible /\ DirectThrows(page.run[i])
          /\ FallbackWorks(page.run[i])
          /\ Succeeded(i)

(***************************************************************************)
(* The fingerprint (checked under SpecHash).                               *)
(***************************************************************************)
Inverted(px) == [n \in DOMAIN px |-> MaxGray - px[n]]

HasUnequalPair(px) ==
    \E row \in 0 .. (Rows - 1), col \in 0 .. (Cols - 2) :
        Pixel(px, row, col) # Pixel(px, row, col + 1)

\* C25: the fingerprint depends on the grid alone: bit row*8 + col is set
\* exactly when pixel[row, col] > pixel[row, col + 1], and a grid with an
\* unequal horizontally adjacent pair differs in fingerprint from its
\* inversion 255 - pixel
C25_FingerprintOfGrid ==
    pc = "returned" =>
        /\ \A row \in 0 .. (Rows - 1), col \in 0 .. (Cols - 2) :
               BitOf(fingerprint, row * 8 + col) <=>
                   Pixel(pixels, row, col) > Pixel(pixels, row, col + 1)
        /\ HasUnequalPair(pixels) =>
               fingerprint # _compute_dhash(Inverted(pixels))

\* a checkerboard with one pixel changed has been fingerprinted
C25_Witness ==
    /\ pc = "returned"
    /\ HasUnequalPair(pixels)
    /\ \E i \in 0 .. (Rows * 8 - 1) : BitOf(fingerprint, i)
    /\ \E i \in 0 .. (Rows * 8 - 1) : ~BitOf(fingerprint, i)

(***************************************************************************)
(* finalize_step (checked under SpecStep).                                 *)
(***************************************************************************)
\* C26: finalize_step on a non-terminal step clears instruction, plan,
\* elements, candidates, actions and follow-up hint and leaves tried_ids,
\* ineffective_targets and last_image_hash as execution left them; on a
\* terminal step the scratch fields are kept
C26_FinalizeFrame ==
    [][pc = "finalize_step" =>
        /\ UNCHANGED <<tried_ids, ineffective_targets, last_image_hash>>
        /\ IF done'
           THEN UNCHANGED stepScratch
           ELSE /\ instruction' = None
                /\ plan_steps' = NoPlan
                /\ elements' = <<>>
                /\ top_elements' = <<>>
                /\ actions' = <<>>
                /\ followup_hint' = {}]_vars

\* a non-terminal step that had a batch, with memory to carry over
C26_Witness ==
    /\ pc = "capture_ui"
    /\ last_actions # <<>> /\ actions = <<>> /\ elements = <<>>
    /\ history_entry.followup # {} /\ followup_hint = {}
    /\ tried_ids # {} /\ ineffective_targets # {}

(***************************************************************************)
(* The loop's phases (checked under Spec).                                 *)
(***************************************************************************)
PhaseOrder ==
    <<"capture_ui", "agent_a", "score_elements", "agent_b", "execute_plan",
      "finalize_step">>

\* node b is what runs after node a in an iteration
FollowsInOrder(a, b) ==
    \E i \in 1 .. (Len(PhaseOrder) - 1) :
        a = PhaseOrder[i] /\ b = PhaseOrder[i + 1]

\* C27 (as claimed): in every iteration observing, planning, ranking,
\* proposing/validating, executing/measuring and finalizing run in this
\* order, each once; after finalizing the loop returns to observing when
\* done is false and stops when it is true; nothing runs after the stop
C27_PhasesInOrder ==
    [][pc' # pc =>
        \/ FollowsInOrder(pc, pc')
        \/ pc = "finalize_step" /\ ~done' /\ pc' = "capture_ui"
        \/ pc = "finalize_step" /\ done' /\ pc' = "END"]_vars

\* the instruction is a text with "goal completed" in it, in any case
SaysGoalCompleted(instr) ==
    /\ instr # None
    /\ \E i \in 1 .. Len(instr) :
          /\ i + 13 <= Len(instr)
          /\ Lower(SubSeq(instr, i, i + 13)) = "goal completed"

\* C28: finalize_step leaves done true exactly when done was already set
\* during the step, or the plan metadata carries done, or the instruction
\* contains "goal completed" in any case, or the incremented step counter
\* is at least 15; otherwise done is false and the loop continues
C28_DoneExactlyWhen ==
    [][pc = "finalize_step" =>
        /\ done' <=>
               \/ done
               \/ plan_steps # NoPlan /\ plan_steps.done
               \/ SaysGoalCompleted(instruction)
               \/ step + 1 >= MAX_STEPS
        /\ ~done' => pc' = "capture_ui"
        /\ step' = step + 1]_vars

\* finalize_step has ended a step on the cap alone
C28_Witness ==
    /\ pc = "END" /\ done
    /\ step = MAX_STEPS /\ completion_via = "max_steps"
    /\ ~SaysGoalCompleted(instruction)

(***************************************************************************)
(* DOM confirmation (checked under SpecStep).                              *)
(***************************************************************************)
\* C29 (as claimed): the Executor marks the goal done by DOM confirmation
\* only when the plan has a form field with a value and every form field
\* value of the plan is visible on the page, and never when the check throws
C29_DomConfirmation ==
    (Ran /\ completion_via = "dom_confirmation") =>
        /\ done
        /\ FieldValues(plan_steps) # {}
        /\ FieldValues(plan_steps) \subseteq page.texts
        /\ page.dom_check = "ok"

(***************************************************************************)
(* The parameters the Validator hands to the Executor (SpecValidator).     *)
(***************************************************************************)
\* C30 (as claimed): every emitted fill, select and press carries its
\* parameter under the canonical name (text, option, key), and every emitted
\* fill or select is one the Executor acts on with that parameter
C30_CanonicalParams ==
    Validated =>
        \A i \in DOMAIN actions :
            /\ actions[i].action \in {"fill", "select", "press"} =>
                   actions[i].param = "canon"
            /\ actions[i].action \in {"fill", "select"} =>
                   Touches(actions[i],
                           role_by_id(top_elements, Str(actions[i].target_id)),
                           "ok")

(***************************************************************************)
(* The Validator as a filter (checked under SpecValidator).                *)
(***************************************************************************)
\* the emitted list picks items of the parsed list, keeping their order
IsSubsequence(sub, full) ==
    \E f \in [DOMAIN sub -> DOMAIN full] :
        /\ \A i, j \in DOMAIN sub : i < j => f[i] < f[j]
        /\ \A i \in DOMAIN sub : sub[i] = full[f[i]]

Names(a) == a.action # NotADict /\ a.target_id # None

\* an earlier action of the batch named the target of the j-th
UsedBefore(j) ==
    \E k \in DOMAIN proposed :
        /\ k < j /\ Names(proposed[k])
        /\ TargetOf(proposed[k]) = TargetOf(proposed[j])

Emitted(j) == \E i \in DOMAIN actions : actions[i] = proposed[j]

Scored1 == pc = "returned" /\ layers # NoScore

NameTokens == TokenSet(elements[1].name)

InstrTokens == TokenSet(instruction)

\* C32 (as claimed): the conflict penalty is subtracted exactly when the
\* name tokens hold a token of the intent's conflict list that the
\* instruction does not mention.
C32_ConflictPenalty ==
    Scored1 =>
        ((layers.conflict # 0) <=>
            \E t \in NEGATIVE_SIGNALS(layers.intent) \cap NameTokens :
                t \notin InstrTokens)

\* C33 (as claimed): an element whose name holds a destructive token gets
\* the destructive penalty unless the instruction holds that same token.
C33_DestructivePenalty ==
    Scored1 =>
        \A t \in DESTRUCTIVE_TOKENS \cap NameTokens :
            t \notin InstrTokens => layers.destructive # 0

\* the intents in the order the claim fixes
ClaimedOrder ==
    <<"profile_settings", "create_new", "filter_search", "navigate_tab",
      "form_fill">>

\* some keyword of the intent occurs in the lowercased instruction
Mentions(intent) ==
    \E kw \in INTENT_KEYWORDS(intent) : In(kw, Lower(instruction))

\* C34: the intent returned is the first of profile_settings, create_new,
\* filter_search, navigate_tab, form_fill with a keyword occurring in the
\* lowercased instruction, and "generic" when none has one; which keyword of
\* the intent is found first plays no part.
C34_FirstIntentWins ==
    Scored1 =>
        /\ (\A k \in DOMAIN ClaimedOrder : ~Mentions(ClaimedOrder[k]))
               => layers.intent = "generic"
        /\ \A k \in DOMAIN ClaimedOrder :
              (/\ Mentions(ClaimedOrder[k])
               /\ \A j \in 1 .. (k - 1) : ~Mentions(ClaimedOrder[j]))
                  => layers.intent = ClaimedOrder[k]

\* C34 witness: an instruction that opens with a filter_search keyword and
\* holds a create_new keyword later was classified create_new, and one whose
\* only keyword sits inside a longer word was classified by it.
C34_Witness ==
    /\ Scored1
    /\ \/ /\ instruction = "Search for new issues"
          /\ Mentions("filter_search") /\ layers.intent = "create_new"
       \/ /\ instruction = "Renew the plan"
          /\ "new" \notin InstrTokens /\ layers.intent = "create_new"

(***************************************************************************)
(* The select that finds its value already shown (checked under SpecStep). *)
(***************************************************************************)
\* the i-th action of the batch is a select the Validator lets through, and
\* its control shows the option
ShownSelect(i) ==
    /\ Ran
    /\ i \in DOMAIN actions /\ i \in DOMAIN page.run
    /\ actions[i].action = "select"
    /\ actions[i].param # "none"
    /\ RoleOf(i) \in {"combobox", "menuitem"}
    /\ page.run[i].in_budget /\ page.run[i].locator
    /\ page.run[i].value_matches

\* no click, counted as executed, and the same again on the page it leaves
NoClickSuccess(i) ==
    /\ SelectClicks(page.run[i]) = 0
    /\ actions[i].target_id \in SeqToSet(executed_ids)
    /\ actions[i].target_id \notin SeqToSet(failed_ids)
    /\ \A after \in SelectEffect(page.run[i]) :
          /\ after = page.run[i]
          /\ _safe_select(after) = "True"
          /\ SelectClicks(after) = 0

ReachesSelect(i) ==
    actions[i].param = "canon" /\ ~page.run[i].status_date

Unpenalized(e) == RankScore(e, instruction, plan_steps, {}, {}, ui_same)

PenalizedAt(i) ==
    top_elements[i].score <
        Unpenalized(_resolve_element(<<>>, elements, top_elements[i].id))

\* C36 (as claimed): while ranking, the tried-id and ineffective-target
\* penalties fall only on controls that were acted upon in an earlier step.
C36_PenaltiesOnActedOnly ==
    Ranked =>
        \A i \in DOMAIN top_elements :
            PenalizedAt(i) => Control(top_elements[i]) \in acted

(***************************************************************************)
(* Reserved target ids (checked under SpecValidator).                      *)
(***************************************************************************)
\* the j-th parsed action names a target no earlier action named, and passes
\* the checks of its type
Kept(j) ==
    /\ Names(proposed[j])
    /\ ~UsedBefore(j)
    /\ PassesGuards(proposed[j],
                    role_by_id(top_elements, TargetOf(proposed[j])))

\* C37: the first action that names a target id reserves it, accepted or
\* dropped: the emitted actions are exactly the parsed actions that pass
\* the checks of their type and whose target no earlier action of the batch
\* named.
C37_FirstNamingReserves ==
    Validated =>
        /\ \A j \in DOMAIN proposed : Kept(j) => Emitted(j)
        /\ \A i \in DOMAIN actions :
              \E j \in DOMAIN proposed : Kept(j) /\ actions[i] = proposed[j]
        /\ Len(actions) = Cardinality({j \in DOMAIN proposed : Kept(j)})

\* C37 witness: a fill without text on a textbox was dropped, and the click
\* on the same textbox behind it was dropped with it.
C37_Witness ==
    /\ Validated
    /\ Len(proposed) = 2 /\ actions = <<>>
    /\ proposed[1].action = "fill" /\ proposed[1].param = "none"
    /\ proposed[2].action = "click"
    /\ TargetOf(proposed[1]) = "0" /\ TargetOf(proposed[2]) = "0"
    /\ role_by_id(top_elements, "0") = "textbox"

(***************************************************************************)
(* The loop memory between steps (checked under Spec).                     *)
(***************************************************************************)
\* C38: in every state of a run, every id in ineffective_targets is also in
\* tried_ids.
C38_IneffectiveAreTried == ineffective_targets \subseteq tried_ids

\* C38 witness: a step whose screenshot matched the previous one has put the
\* ids it executed into ineffective_targets, behind ids tried in an earlier
\* step.
C38_Witness ==
    /\ Executed /\ measured = "same"
    /\ ineffective_targets # {}
    /\ tried_ids \ ineffective_targets # {}

\* C39: a step whose validated action list is empty leaves last_image_hash,
\* ui_same, no_change_steps, tried_ids and ineffective_targets as they were:
\* only an execute_plan that has actions to run writes any of them.
C39_EmptyBatchFrame ==
    [][(pc # "execute_plan" \/ actions = <<>>) =>
          UNCHANGED <<last_image_hash, ui_same, no_change_steps, tried_ids,
                      ineffective_targets>>]_vars

\* C39 witness: a step without actions has been finalized behind a step that
\* measured the page unchanged, and ui_same still says so.
C39_Witness ==
    /\ pc = "capture_ui" /\ step >= 3
    /\ last_actions = <<>>
    /\ ui_same /\ no_change_steps = 1 /\ ineffective_targets # {}

(***************************************************************************)
(* A step in which the Planner declares the goal reached (under Spec).     *)
(***************************************************************************)
\* done was set by agent_a: by its DOM goal check, by the vision
\* verification or by the model's done flag
PlannerDone ==
    /\ done
    /\ completion_via \in {"dom_check", "vision_verification",
                           "navigator_done_signal"}

\* C40 (as claimed): once the Planner has set done in a step, no UI action
\* is executed on the page in that step, and the run goes on to that step's
\* finalization and stops there with the Planner's completion reason.
C40_PlannerDoneStops ==
    PlannerDone =>
        /\ pc # "aborted"
        /\ pc = "finalize_step" => (touched = <<>> /\ executed_ids = <<>>)

====
